---- MODULE Spec2Model ----
(***************************************************************************)
(* Retry engine: circuit breaker (circuit_breaker.rs), retry policy        *)
(* (retry_policy.rs), dead letter queue (dlq.rs) and the gRPC service that *)
(* puts them together (server.rs).                                         *)
(*                                                                         *)
(* The specifications of the module:                                       *)
(*   SpecCB       one CircuitBreaker created by new(), its five methods    *)
(*                and the wall clock they read;                            *)
(*   SpecDLQ      one DeadLetterQueue and its six methods;                 *)
(*   SpecPolicy   one RetryPolicy and its two pure methods, applied to     *)
(*                inputs drawn from bounded sets;                          *)
(*   SpecService  one RetryEngineService: its three handlers, one call     *)
(*                after another, the clock, and the outcomes of provider   *)
(*                calls reaching the breakers of the registry;             *)
(*   SpecConcurrent, SpecConcurrentFair                                    *)
(*                two handlers of the service running at once, lock by     *)
(*                lock, the second with every running handler scheduled;   *)
(*   SpecThreads  three threads calling the methods of one CircuitBreaker  *)
(*                at once, assignment by assignment.                       *)
(* In the first four a method or handler is one atomic action: every method *)
(* holds its object's Mutex for its whole body, and the handlers are taken  *)
(* one at a time.                                                           *)
(*                                                                         *)
(* Numbers.  Timestamps and delays are far below 2^64 here, so the u64     *)
(* sums of the source do not overflow and are plain sums.  The attempt     *)
(* number keeps its width, scaled from 32 bits to AttemptBits, because     *)
(* calculate_delay casts attempt - 1 to a signed integer of that width.    *)
(* backoff_multiplier is a ratio num/den of two small integers with den a  *)
(* power of two: on such values the f64 arithmetic of the source is exact. *)
(***************************************************************************)
EXTENDS Integers, Sequences, FiniteSets, TLC

\* ------------------------------------------------------------------ bounds
\* Largest failure_threshold / success_threshold drawn for a configuration.
MaxThreshold == 2
\* Largest timeout_duration_ms drawn for a configuration.
MaxTimeout == 2
\* Largest wall-clock reading (milliseconds).
MaxTime == 2
\* Largest attempt_count carried by a dead letter entry.
MaxAttemptCount == 1
\* Width in bits of the attempt number given to the retry policy (u32 in the
\* source, scaled down): attempts range over 0 .. 2^AttemptBits - 1.
AttemptBits == 4
\* Largest max_attempts drawn for a retry configuration.
MaxAttempts == 3

VARIABLES
    config,     \* CircuitBreaker.config
    cb,         \* CircuitBreaker.state (the record behind the Mutex)
    now,        \* what current_timestamp_ms() returns at this moment
    mono,       \* history: the clock has never gone backwards so far
    last,       \* history: the last call on the breaker, its result, the state before it
    script,     \* history: position in the run "failures, can_proceed, successes"
    episode,    \* history: record_success calls made in the current HalfOpen episode
    streak,     \* history: the run of record_failure calls since the last record_success
    carried,    \* history: record_success calls of the HalfOpen episode a failure ended
    entries,    \* DeadLetterQueue.entries: the HashMap, a function on the keys present
    dq,         \* history: the last call on the queue, its argument, result, map before
    ledger,     \* history: per transaction, what its last add_entry / remove_entry left
    rconfig,    \* RetryPolicy.config
    pol,        \* history: the call made on the policy, its random draws, its result
    circuit_breakers,   \* RetryEngineService.circuit_breakers: provider -> breaker state
    retry_states,       \* RetryEngineService.retry_states: transaction -> RetryState
    calls,      \* the handlers running: request, position, local values, history
    locks,      \* each Mutex: the handler holding its guard, or "free"
    breakers_created     \* history: CircuitBreaker::new() values put in the registry, per provider

cbVars == <<config, cb, now, mono, last, script, episode, streak, carried>>
dlqVars == <<entries, dq, ledger>>
polVars == <<rconfig, pol>>
svcVars == <<circuit_breakers, retry_states>>
concVars == <<calls, locks, breakers_created>>
vars == <<cbVars, dlqVars, polVars, svcVars, concVars>>

Min(a, b) == IF a <= b THEN a ELSE b
Max(a, b) == IF a >= b THEN a ELSE b

\* ---------------------------------------------------------- circuit breaker

CircuitState == {"Closed", "Open", "HalfOpen"}

\* CircuitBreakerConfig: three unsigned fields, no validation anywhere.
CircuitBreakerConfig ==
    [failure_threshold : 0..MaxThreshold,
     success_threshold : 0..MaxThreshold,
     timeout_duration_ms : 0..MaxTimeout]

\* impl Default for CircuitBreakerState
CircuitBreakerState_default ==
    [state |-> "Closed",
     failure_count |-> 0,
     success_count |-> 0,
     last_failure_at_ms |-> 0,
     next_attempt_at_ms |-> 0]

\* Variant: the timeout counts as expired only strictly after next_attempt_at_ms.
timeout_expired_strict(s, t) == t > s.next_attempt_at_ms

\* The comparison that decides whether an Open breaker's timeout has expired.
timeout_expired(s, t) == t >= s.next_attempt_at_ms

\* Variant: HalfOpen admits only the call that made the breaker HalfOpen.
can_proceed_result_one_probe(s, t) ==
    CASE s.state = "Closed" -> TRUE
      [] s.state = "Open" -> timeout_expired(s, t)
      [] s.state = "HalfOpen" -> FALSE

\* can_proceed: the value returned, called at time t in state s.
can_proceed_result(s, t) ==
    CASE s.state = "Closed" -> TRUE
      [] s.state = "Open" -> timeout_expired(s, t)
      [] s.state = "HalfOpen" -> TRUE

\* Variant: a can_proceed that answers and leaves the state alone.
can_proceed_state_kept(s, t) == s

\* Variant: the call that starts the probing counts as its first success.
can_proceed_state_counted(s, t) ==
    IF s.state = "Open" /\ timeout_expired(s, t)
    THEN [s EXCEPT !.state = "HalfOpen", !.success_count = 1]
    ELSE s

\* can_proceed: the state it leaves behind.
can_proceed_state(s, t) ==
    IF s.state = "Open" /\ timeout_expired(s, t)
    THEN [s EXCEPT !.state = "HalfOpen", !.success_count = 0]
    ELSE s

\* Variant: a success while Closed leaves failure_count alone.
record_success_closed_keep(s) == s

\* record_success, the Closed arm.
record_success_closed(s) == [s EXCEPT !.failure_count = 0]

\* Variant: the breaker closes only once success_count exceeds the threshold.
record_success_half_open_gt(s, c) ==
    LET n == s.success_count + 1
    IN IF n > c.success_threshold
       THEN [s EXCEPT !.state = "Closed", !.failure_count = 0, !.success_count = 0]
       ELSE [s EXCEPT !.success_count = n]

\* record_success, the HalfOpen arm.
record_success_half_open(s, c) ==
    LET n == s.success_count + 1
    IN IF n >= c.success_threshold
       THEN [s EXCEPT !.state = "Closed", !.failure_count = 0, !.success_count = 0]
       ELSE [s EXCEPT !.success_count = n]

\* Variant: a success while Open is ignored.
record_success_open_ignored(s) == s

\* Variant: a success while Open starts the probing instead of closing.
record_success_open_probing(s) ==
    [s EXCEPT !.state = "HalfOpen", !.success_count = 0]

\* record_success, the Open arm.
record_success_open(s) ==
    [s EXCEPT !.state = "Closed", !.failure_count = 0, !.success_count = 0]

record_success_state(s, c) ==
    CASE s.state = "Closed" -> record_success_closed(s)
      [] s.state = "HalfOpen" -> record_success_half_open(s, c)
      [] s.state = "Open" -> record_success_open(s)

\* Variant: the breaker opens only once failure_count exceeds the threshold.
record_failure_closed_gt(s, c, t) ==
    LET n == s.failure_count + 1
    IN IF n > c.failure_threshold
       THEN [s EXCEPT !.failure_count = n,
                      !.state = "Open",
                      !.next_attempt_at_ms = t + c.timeout_duration_ms]
       ELSE [s EXCEPT !.failure_count = n]

\* record_failure, the Closed arm (s already carries last_failure_at_ms = t).
record_failure_closed(s, c, t) ==
    LET n == s.failure_count + 1
    IN IF n >= c.failure_threshold
       THEN [s EXCEPT !.failure_count = n,
                      !.state = "Open",
                      !.next_attempt_at_ms = t + c.timeout_duration_ms]
       ELSE [s EXCEPT !.failure_count = n]

\* Variant: a failure while HalfOpen reopens but keeps the successes counted so far.
record_failure_half_open_keep(s, c, t) ==
    [s EXCEPT !.state = "Open",
              !.failure_count = c.failure_threshold,
              !.next_attempt_at_ms = t + c.timeout_duration_ms]

\* record_failure, the HalfOpen arm.
record_failure_half_open(s, c, t) ==
    [s EXCEPT !.state = "Open",
              !.failure_count = c.failure_threshold,
              !.success_count = 0,
              !.next_attempt_at_ms = t + c.timeout_duration_ms]

\* Variant: a failure while Open leaves next_attempt_at_ms where it was.
record_failure_open_keep(s, c, t) == s

\* record_failure, the Open arm.
record_failure_open(s, c, t) ==
    [s EXCEPT !.next_attempt_at_ms = t + c.timeout_duration_ms]

record_failure_state(s, c, t) ==
    LET s1 == [s EXCEPT !.last_failure_at_ms = t]
    IN CASE s.state = "Closed" -> record_failure_closed(s1, c, t)
         [] s.state = "HalfOpen" -> record_failure_half_open(s1, c, t)
         [] s.state = "Open" -> record_failure_open(s1, c, t)

\* --- history of the run "k failures, one can_proceed, j successes" on a
\* breaker made by new().  get_state reads only and keeps the position.
ScriptOff == [on |-> FALSE, f |-> 0, c |-> 0, s |-> 0]
ScriptStart == [on |-> TRUE, f |-> 0, c |-> 0, s |-> 0]

script_failure(sc) ==
    IF sc.on /\ sc.c = 0 /\ sc.f <= MaxThreshold
    THEN [sc EXCEPT !.f = sc.f + 1]
    ELSE ScriptOff

script_can_proceed(sc, c) ==
    IF sc.on /\ sc.c = 0 /\ sc.f = c.failure_threshold
    THEN [sc EXCEPT !.c = 1]
    ELSE ScriptOff

script_success(sc, c) ==
    IF sc.on /\ sc.c = 1 /\ sc.s < c.success_threshold
    THEN [sc EXCEPT !.s = sc.s + 1]
    ELSE ScriptOff

\* The number of record_success calls since the breaker last became HalfOpen
\* (0 while it is not HalfOpen), counted from the calls, not from success_count.
episode_after(op, before, after, n) ==
    IF after.state # "HalfOpen" THEN 0
    ELSE IF before.state # "HalfOpen" THEN 0
    ELSE IF op = "record_success" THEN n + 1
    ELSE n

\* The number of record_success calls made in the HalfOpen episode that the
\* last record_failure on a HalfOpen breaker ended (n is the count of the
\* episode at that call); 0 once the breaker is Closed again.
carried_after(before, after, n, k) ==
    IF after.state = "Closed" THEN 0
    ELSE IF before.state = "HalfOpen" /\ after.state = "Open" THEN n
    ELSE k

\* --- history of a run of record_failure and record_success calls on a
\* breaker made by new() in which fewer than failure_threshold failures come
\* in a row: `run` is the number of record_failure calls since the last
\* record_success, `total` the number of record_failure calls so far (counted
\* up to MaxThreshold + 1).  can_proceed and reset end the run of calls;
\* get_state reads only and keeps it.
StreakOff == [on |-> FALSE, run |-> 0, total |-> 0]
StreakStart == [on |-> TRUE, run |-> 0, total |-> 0]

streak_failure(st, c) ==
    IF st.on /\ st.run + 1 < c.failure_threshold
    THEN [st EXCEPT !.run = st.run + 1, !.total = Min(st.total + 1, MaxThreshold + 1)]
    ELSE StreakOff

streak_success(st) ==
    IF st.on THEN [st EXCEPT !.run = 0] ELSE StreakOff

Call(op, ret, pre) == [op |-> op, ret |-> ret, pre |-> pre]

\* --------------------------------------------------------------- retry policy

\* backoff_multiplier values, as ratios.
Multipliers ==
    {[num |-> 1, den |-> 2], [num |-> 1, den |-> 1],
     [num |-> 3, den |-> 2], [num |-> 2, den |-> 1]}
InitialDelays == {0, 1, 7, 100}
MaxDelays == {0, 5, 60}

\* The configuration of the worked example: 3 attempts, 1000 ms doubling to at
\* most 10000 ms, no jitter.
ScenarioA ==
    [max_attempts |-> 3, initial_delay_ms |-> 1000, max_delay_ms |-> 10000,
     backoff_multiplier |-> [num |-> 2, den |-> 1], jitter |-> FALSE]

\* struct RetryConfig
RetryConfig ==
    [max_attempts : 0..MaxAttempts,
     initial_delay_ms : InitialDelays,
     max_delay_ms : MaxDelays,
     backoff_multiplier : Multipliers,
     jitter : BOOLEAN] \cup {ScenarioA}

\* The attempt numbers a caller can pass (u32).
Attempts == 0..(2^AttemptBits - 1)

\* `x as i32` for an unsigned x of the same width: the bit pattern is kept, so
\* the upper half of the range becomes negative.
as_i32(x) == IF x < 2^(AttemptBits - 1) THEN x ELSE x - 2^AttemptBits

\* (num/den * (n/d)^k).min(cap) as u64 for k >= 0: the product is exact, the
\* cast truncates.  A product already at the cap that can only grow gives the
\* cap, one below 1 that can only shrink gives 0 (the powers here stay finite
\* and nonzero in f64, so neither an infinity nor a NaN arises).
RECURSIVE capped_product(_, _, _, _, _, _)
capped_product(num, den, n, d, k, cap) ==
    IF k = 0 THEN Min(num \div den, cap)
    ELSE IF num = 0 THEN 0
    ELSE IF n >= d /\ num >= cap * den THEN cap
    ELSE IF n <= d /\ num < den THEN 0
    ELSE capped_product(num * n, den * d, n, d, k - 1, cap)

\* initial_delay_ms as f64 * backoff_multiplier.powi(e), capped and cast to
\* u64; powi with a negative exponent is the power of the reciprocal.
powi_capped(c, e) ==
    LET m == c.backoff_multiplier
    IN IF e >= 0
       THEN capped_product(c.initial_delay_ms, 1, m.num, m.den, e, c.max_delay_ms)
       ELSE capped_product(c.initial_delay_ms, 1, m.den, m.num, 0 - e, c.max_delay_ms)

\* Variant: the attempt number itself as the exponent.
exponent_no_offset(attempt) == as_i32(attempt)

\* The exponent calculate_delay hands to powi: (attempt - 1) as i32.
exponent(attempt) == as_i32(attempt - 1)

\* calculate_delay up to `capped_delay` (attempt >= 1).
capped_delay(c, attempt) == powi_capped(c, exponent(attempt))

\* Variant: jitter of up to half the delay.
jitter_range_half(delay) == delay \div 2

\* add_jitter: (delay as f64 * 0.2) as u64
jitter_range(delay) == delay \div 5

\* add_jitter with the two random draws made explicit: jitter in
\* 0..=jitter_range and the coin gen_bool(0.5).
add_jitter(delay, jitter, plus) ==
    IF plus THEN delay + jitter ELSE Max(delay - jitter, 0)

\* calculate_delay(attempt) with the draws of add_jitter given.
calculate_delay_result(c, attempt, jitter, plus) ==
    IF attempt = 0 THEN 0
    ELSE LET capped == capped_delay(c, attempt)
             delay_with_jitter ==
                 IF c.jitter THEN add_jitter(capped, jitter, plus) ELSE capped
         IN Min(delay_with_jitter, c.max_delay_ms)

\* Variant: an attempt equal to max_attempts may still retry.
should_retry_le(c, attempt) == attempt <= c.max_attempts

\* should_retry(attempt)
should_retry_result(c, attempt) == attempt < c.max_attempts

PolCall(op, attempt, jitter, plus, delay, retry) ==
    [op |-> op, attempt |-> attempt, jitter |-> jitter, plus |-> plus,
     delay |-> delay, retry |-> retry]

PolNew == PolCall("new", 0, 0, FALSE, 0, FALSE)

\* RetryPolicy::new(config)
InitPolicy ==
    /\ rconfig \in RetryConfig
    /\ pol = PolNew

\* The draws add_jitter can make for this call (none when it is not reached).
JitterDraws(c, attempt) ==
    IF attempt = 0 \/ ~c.jitter THEN {<<0, FALSE>>}
    ELSE (0..jitter_range(capped_delay(c, attempt))) \X BOOLEAN

\* The policy has no state: a call depends on the configuration and its
\* argument alone, so each behaviour makes one call.
calculate_delay ==
    /\ pol.op = "new"
    /\ \E attempt \in Attempts :
          \E d \in JitterDraws(rconfig, attempt) :
              pol' = PolCall("calculate_delay", attempt, d[1], d[2],
                             calculate_delay_result(rconfig, attempt, d[1], d[2]), FALSE)
    /\ UNCHANGED rconfig

should_retry ==
    /\ pol.op = "new"
    /\ \E attempt \in Attempts :
          pol' = PolCall("should_retry", attempt, 0, FALSE, 0,
                         should_retry_result(rconfig, attempt))
    /\ UNCHANGED rconfig

\* The policy left as constructed, for the specifications of the other objects.
IdlePolicy ==
    /\ rconfig = ScenarioA
    /\ pol = PolNew

\* ---------------------------------------------------------- dead letter queue

\* The values add_entry is given for each field of an entry.
TransactionIds == {"txn_123", "txn_456"}
PspNames == {"psp1", "psp2"}
Payloads == {<<1>>}
Errors == {"Error 1", "Error 2"}
EntryTimestamps == {1000, 2000}

\* struct DLQEntry
DLQEntry ==
    [transaction_id : TransactionIds,
     psp_name : PspNames,
     payload : Payloads,
     attempt_count : 0..MaxAttemptCount,
     last_error : Errors,
     timestamp_ms : EntryTimestamps]

\* Option<T>: None is the empty sequence, Some(x) the sequence of x alone.
None == <<>>
Some(x) == <<x>>

\* HashMap::new()
EmptyMap == [t \in {} |-> None]

\* HashMap::insert(k, v): the value under k is v afterwards, present or not before.
map_insert(mp, k, v) ==
    [t \in (DOMAIN mp) \cup {k} |-> IF t = k THEN v ELSE mp[t]]

\* Variant: an insert that keeps the value already present (entry().or_insert).
add_entry_keep_first(mp, e) ==
    IF e.transaction_id \in DOMAIN mp THEN mp ELSE map_insert(mp, e.transaction_id, e)

\* add_entry: entries.insert(entry.transaction_id.clone(), entry)
add_entry_map(mp, e) == map_insert(mp, e.transaction_id, e)

\* contains: entries.contains_key(transaction_id)
contains_result(mp, t) == t \in DOMAIN mp

\* get_entry: entries.get(transaction_id).cloned()
get_entry_result(mp, t) == IF t \in DOMAIN mp THEN Some(mp[t]) ELSE None

\* get_all_entries: entries.values().cloned().collect(), in no particular order.
get_all_entries_result(mp) == {mp[t] : t \in DOMAIN mp}

\* Variant: the entry is handed out and stays in the map (get for remove).
remove_entry_map_peek(mp, t) == mp

\* remove_entry: entries.remove(transaction_id)
remove_entry_map(mp, t) == [u \in (DOMAIN mp) \ {t} |-> mp[u]]

\* count: entries.len()
count_result(mp) == Cardinality(DOMAIN mp)

DlqCall(op, tid, arg, ret, pre) ==
    [op |-> op, tid |-> tid, arg |-> arg, ret |-> ret, pre |-> pre]

\* --- history of the add_entry and remove_entry calls, kept beside the map
\* and never read by the methods: for each transaction `last` is the entry
\* its last add_entry call was given, or None when its last call was
\* remove_entry or it had none; `removed` tells that an entry of the
\* transaction has been taken out at some time.
NoCalls == [t \in TransactionIds |-> [last |-> None, removed |-> FALSE]]

ledger_add(lg, e) == [lg EXCEPT ![e.transaction_id].last = Some(e)]

ledger_remove(lg, t) ==
    [lg EXCEPT ![t] = [last |-> None, removed |-> (lg[t].removed \/ lg[t].last # None)]]

\* DeadLetterQueue::new()
InitDLQ ==
    /\ entries = EmptyMap
    /\ dq = DlqCall("new", "", None, None, EmptyMap)
    /\ ledger = NoCalls

add_entry ==
    \E e \in DLQEntry :
        /\ entries' = add_entry_map(entries, e)
        /\ dq' = DlqCall("add_entry", e.transaction_id, Some(e), None, entries)
        /\ ledger' = ledger_add(ledger, e)

contains ==
    \E t \in TransactionIds :
        /\ dq' = DlqCall("contains", t, None, Some(contains_result(entries, t)), entries)
        /\ UNCHANGED <<entries, ledger>>

get_entry ==
    \E t \in TransactionIds :
        /\ dq' = DlqCall("get_entry", t, None, get_entry_result(entries, t), entries)
        /\ UNCHANGED <<entries, ledger>>

get_all_entries ==
    /\ dq' = DlqCall("get_all_entries", "", None, get_all_entries_result(entries), entries)
    /\ UNCHANGED <<entries, ledger>>

remove_entry ==
    \E t \in TransactionIds :
        /\ entries' = remove_entry_map(entries, t)
        /\ dq' = DlqCall("remove_entry", t, None, get_entry_result(entries, t), entries)
        /\ ledger' = ledger_remove(ledger, t)

count ==
    /\ dq' = DlqCall("count", "", None, Some(count_result(entries)), entries)
    /\ UNCHANGED <<entries, ledger>>

\* -------------------------------------------------------------- the service

\* The values a request carries.  attempt_number is cast with `as u32`; the
\* values drawn are non-negative and below 2^AttemptBits, where the cast keeps
\* the number.
RequestAttempts == {0, 1, 2}
RequestPayloads == {<<1>>}
as_u32(x) == x % 2^AttemptBits

\* RetryRequest
RetryRequest ==
    [transaction_id : TransactionIds,
     psp_name : PspNames,
     attempt_number : RequestAttempts,
     payload : RequestPayloads]

\* struct RetryState, as schedule_retry builds it
RetryState(attempt, t) ==
    [attempt_count |-> attempt, last_error |-> "", last_attempt_at_ms |-> t]

\* Variant: an entry that does not carry the attempt number of the request.
exhausted_entry_no_attempt(req, t) ==
    [transaction_id |-> req.transaction_id,
     psp_name |-> req.psp_name,
     payload |-> req.payload,
     attempt_count |-> 0,
     last_error |-> "Max retry attempts exceeded",
     timestamp_ms |-> t]

\* The DLQEntry schedule_retry builds when the attempts are used up.
exhausted_entry(req, t) ==
    [transaction_id |-> req.transaction_id,
     psp_name |-> req.psp_name,
     payload |-> req.payload,
     attempt_count |-> as_u32(req.attempt_number),
     last_error |-> "Max retry attempts exceeded",
     timestamp_ms |-> t]

\* Variant: a new breaker put in the registry at every lookup (insert).
get_or_create_circuit_breaker_fresh(br, p) ==
    map_insert(br, p, CircuitBreakerState_default)

\* Variant: a provider not seen before starts from the state of a breaker
\* already in the registry.
get_or_create_circuit_breaker_copied(br, p) ==
    IF p \in DOMAIN br THEN br
    ELSE IF DOMAIN br = {} THEN map_insert(br, p, CircuitBreakerState_default)
    ELSE map_insert(br, p, br[CHOOSE q \in DOMAIN br : TRUE])

\* get_or_create_circuit_breaker: entry(psp_name).or_insert_with(new); the
\* handle returned shares the state kept in the registry.
get_or_create_circuit_breaker(br, p) ==
    IF p \in DOMAIN br THEN br ELSE map_insert(br, p, CircuitBreakerState_default)

\* Variant: a dead-lettered transaction is taken up again by a request whose
\* attempt number still permits a retry.
schedule_retry_branch_redrive(en, br, rc, req, t) ==
    IF contains_result(en, req.transaction_id)
           /\ ~should_retry_result(rc, as_u32(req.attempt_number))
    THEN "in_dlq"
    ELSE IF ~can_proceed_result(get_or_create_circuit_breaker(br, req.psp_name)[req.psp_name], t)
         THEN "circuit_open"
    ELSE IF ~should_retry_result(rc, as_u32(req.attempt_number)) THEN "exhausted"
    ELSE "scheduled"

\* Variant: the attempts tested before the breaker.
schedule_retry_branch_attempts_first(en, br, rc, req, t) ==
    IF contains_result(en, req.transaction_id) THEN "in_dlq"
    ELSE IF ~should_retry_result(rc, as_u32(req.attempt_number)) THEN "exhausted"
    ELSE IF ~can_proceed_result(get_or_create_circuit_breaker(br, req.psp_name)[req.psp_name], t)
         THEN "circuit_open"
    ELSE "scheduled"

\* The return statement schedule_retry reaches, by the conditions in the order
\* the source tests them.
schedule_retry_branch(en, br, rc, req, t) ==
    IF contains_result(en, req.transaction_id) THEN "in_dlq"
    ELSE IF ~can_proceed_result(get_or_create_circuit_breaker(br, req.psp_name)[req.psp_name], t)
         THEN "circuit_open"
    ELSE IF ~should_retry_result(rc, as_u32(req.attempt_number)) THEN "exhausted"
    ELSE "scheduled"

\* Variant: the breaker fetched or created, and asked, before the dead letter check.
schedule_retry_breakers_first(en, br, req, t) ==
    LET fetched == get_or_create_circuit_breaker(br, req.psp_name)
    IN [fetched EXCEPT ![req.psp_name] = can_proceed_state(fetched[req.psp_name], t)]

\* Variant: the handler counts the attempt that is being retried as a failure
\* of the provider.
schedule_retry_breakers_failure(en, br, req, t) ==
    IF contains_result(en, req.transaction_id) THEN br
    ELSE LET fetched == get_or_create_circuit_breaker(br, req.psp_name)
         IN [fetched EXCEPT ![req.psp_name] =
                record_failure_state(can_proceed_state(fetched[req.psp_name], t),
                                     config, t)]

\* circuit_breakers after schedule_retry: past the dead letter check the
\* breaker is fetched or created and can_proceed() runs on it.
schedule_retry_breakers(en, br, req, t) ==
    IF contains_result(en, req.transaction_id) THEN br
    ELSE LET fetched == get_or_create_circuit_breaker(br, req.psp_name)
         IN [fetched EXCEPT ![req.psp_name] = can_proceed_state(fetched[req.psp_name], t)]

\* dlq.entries after schedule_retry
schedule_retry_entries(en, br, rc, req, t) ==
    IF schedule_retry_branch(en, br, rc, req, t) = "exhausted"
    THEN add_entry_map(en, exhausted_entry(req, t))
    ELSE en

\* Variant: the state already kept for the transaction stays (entry().or_insert).
schedule_retry_states_keep_first(en, br, rc, rs, req, t) ==
    IF schedule_retry_branch(en, br, rc, req, t) = "scheduled"
           /\ req.transaction_id \notin DOMAIN rs
    THEN map_insert(rs, req.transaction_id, RetryState(as_u32(req.attempt_number), t))
    ELSE rs

\* Variant: the state of a transaction is dropped when it is dead-lettered.
schedule_retry_states_drop_exhausted(en, br, rc, rs, req, t) ==
    LET branch == schedule_retry_branch(en, br, rc, req, t)
    IN IF branch = "scheduled"
       THEN map_insert(rs, req.transaction_id, RetryState(as_u32(req.attempt_number), t))
       ELSE IF branch = "exhausted"
       THEN [u \in (DOMAIN rs) \ {req.transaction_id} |-> rs[u]]
       ELSE rs

\* retry_states after schedule_retry
schedule_retry_states(en, br, rc, rs, req, t) ==
    IF schedule_retry_branch(en, br, rc, req, t) = "scheduled"
    THEN map_insert(rs, req.transaction_id, RetryState(as_u32(req.attempt_number), t))
    ELSE rs

\* RetryResponse; message is the String that to_string() or format!() builds.
RetryResponse(retry_id, scheduled, next_retry_at_ms, message) ==
    [retry_id |-> retry_id, scheduled |-> scheduled,
     next_retry_at_ms |-> next_retry_at_ms, message |-> message]

\* The response of schedule_retry; d is the random draw of calculate_delay.
schedule_retry_response(en, br, rc, req, t, d) ==
    LET branch == schedule_retry_branch(en, br, rc, req, t)
        attempt == as_u32(req.attempt_number)
    IN IF branch = "in_dlq"
       THEN RetryResponse(req.transaction_id, FALSE, 0,
                          "Transaction already in dead letter queue")
       ELSE IF branch = "circuit_open"
       THEN RetryResponse(req.transaction_id, FALSE, 0,
                          "Circuit breaker open for PSP: " \o req.psp_name)
       ELSE IF branch = "exhausted"
       THEN RetryResponse(req.transaction_id, FALSE, 0,
                          "Max retries exceeded, moved to DLQ")
       ELSE RetryResponse(req.transaction_id, TRUE,
                          t + calculate_delay_result(rc, attempt, d[1], d[2]),
                          "Retry scheduled for attempt " \o ToString(attempt + 1))

\* Result<Response<T>, Status>: Ok(Response::new(x)), or Err(status).
Ok(x) == <<"Ok", x>>
Err(status) == <<"Err", status>>

\* Variant: an open circuit answered with an error status (Status::unavailable).
schedule_retry_result_unavailable(en, br, rc, req, t, d) ==
    IF schedule_retry_branch(en, br, rc, req, t) = "circuit_open"
    THEN Err("unavailable")
    ELSE Ok(schedule_retry_response(en, br, rc, req, t, d))

\* What schedule_retry returns: each of its four return statements is Ok(..).
schedule_retry_result(en, br, rc, req, t, d) ==
    Ok(schedule_retry_response(en, br, rc, req, t, d))

\* Whether a call of schedule_retry reaches retry_policy.calculate_delay.
schedule_retry_computes_delay(en, br, rc, req, t) ==
    schedule_retry_branch(en, br, rc, req, t) = "scheduled"

\* The draws calculate_delay makes in a call of schedule_retry: none unless
\* the call gets as far as the delay.
schedule_retry_draws(en, br, rc, req, t) ==
    IF schedule_retry_computes_delay(en, br, rc, req, t)
    THEN JitterDraws(rc, as_u32(req.attempt_number))
    ELSE {<<0, FALSE>>}

\* CircuitResponse of get_circuit_status: the fields of get_state().
get_circuit_status_response(br, p) ==
    LET state == get_or_create_circuit_breaker(br, p)[p]
    IN [psp_name |-> p,
        state |-> state.state,
        failure_count |-> state.failure_count,
        success_count |-> state.success_count,
        last_failure_at_ms |-> state.last_failure_at_ms,
        next_attempt_at_ms |-> state.next_attempt_at_ms]

\* Variant: the retry state looked up before the dead letter queue.
get_retry_status_response_states_first(en, rs, tid) ==
    IF tid \in DOMAIN rs
    THEN [transaction_id |-> tid, attempt_count |-> rs[tid].attempt_count,
          status |-> "RETRYING", last_error |-> rs[tid].last_error, in_dlq |-> FALSE]
    ELSE IF get_entry_result(en, tid) # None
    THEN [transaction_id |-> tid, attempt_count |-> en[tid].attempt_count,
          status |-> "IN_DLQ", last_error |-> en[tid].last_error, in_dlq |-> TRUE]
    ELSE [transaction_id |-> tid, attempt_count |-> 0,
          status |-> "NOT_FOUND", last_error |-> "", in_dlq |-> FALSE]

\* RetryStatusResponse of get_retry_status
get_retry_status_response(en, rs, tid) ==
    IF get_entry_result(en, tid) # None
    THEN [transaction_id |-> tid, attempt_count |-> en[tid].attempt_count,
          status |-> "IN_DLQ", last_error |-> en[tid].last_error, in_dlq |-> TRUE]
    ELSE IF tid \in DOMAIN rs
    THEN [transaction_id |-> tid, attempt_count |-> rs[tid].attempt_count,
          status |-> "RETRYING", last_error |-> rs[tid].last_error, in_dlq |-> FALSE]
    ELSE [transaction_id |-> tid, attempt_count |-> 0,
          status |-> "NOT_FOUND", last_error |-> "", in_dlq |-> FALSE]

\* What get_circuit_status returns.
get_circuit_status_result(br, p) == Ok(get_circuit_status_response(br, p))

\* What get_retry_status returns: each of its three return statements is Ok(..).
get_retry_status_result(en, rs, tid) == Ok(get_retry_status_response(en, rs, tid))

\* retry_states after get_retry_status: states.get() on a guard that is not
\* mutable reads the map and writes nothing.
get_retry_status_states(rs, tid) == rs

\* dlq.entries after get_retry_status: get_entry clones the entry found.
get_retry_status_entries(en, tid) == en

\* ------------------------------------------- the service: concurrent handlers

\* tonic runs each request as a task of its own; the handlers share the
\* service through Arc and meet at its four kinds of Mutex.  A handler is a
\* sequence of steps here: one to take each lock (possible when the lock is
\* free), and the steps made while holding it, the last of which drops the
\* guard.  A guard is dropped at the end of the method that took it
\* (dlq.rs, circuit_breaker.rs, get_or_create_circuit_breaker) or at the end
\* of the handler (the retry_states guard).
Callers == {"c1", "c2"}

\* The Mutexes: dlq.entries, circuit_breakers, retry_states, and the state of
\* each provider's CircuitBreaker.
Locks ==
    {<<"entries", "">>, <<"circuit_breakers", "">>, <<"retry_states", "">>}
        \cup {<<"state", p>> : p \in PspNames}

\* A handler that has not been called.
IdleCall ==
    [op |-> "idle", pc |-> "idle", transaction_id |-> "", psp_name |-> "",
     attempt_number |-> 0, vacant |-> FALSE, handle |-> 0, acquired |-> <<>>,
     result |-> ""]

\* The Mutex the lock() at a position of a handler is called on.
lock_of(call) ==
    IF call.pc \in {"contains_lock", "add_entry_lock", "get_entry_lock"} THEN <<"entries", "">>
    ELSE IF call.pc = "registry_lock" THEN <<"circuit_breakers", "">>
    ELSE IF call.pc \in {"can_proceed_lock", "get_state_lock"} THEN <<"state", call.psp_name>>
    ELSE <<"retry_states", "">>

\* The position reached with the guard in hand.
locked_pc(pc) ==
    IF pc = "contains_lock" THEN "contains"
    ELSE IF pc = "add_entry_lock" THEN "add_entry"
    ELSE IF pc = "get_entry_lock" THEN "get_entry"
    ELSE IF pc = "registry_lock" THEN "registry_entry"
    ELSE IF pc = "can_proceed_lock" THEN "can_proceed"
    ELSE IF pc = "get_state_lock" THEN "get_state"
    ELSE IF pc = "insert_lock" THEN "insert"
    ELSE "get"

LockPcs ==
    {"contains_lock", "add_entry_lock", "get_entry_lock", "registry_lock",
     "can_proceed_lock", "get_state_lock", "insert_lock", "get_lock"}

\* Variant: a lock() that does not wait.
can_lock_unguarded(lk, l) == TRUE

\* Mutex::lock() returns when no other guard of the Mutex is alive.
can_lock(lk, l) == lk[l] = "free"

\* Variant: a guard that stays alive.
unlock_kept(lk, l) == lk

\* The guard goes out of scope.
unlock(lk, l) == [lk EXCEPT ![l] = "free"]

\* The handlers idle: the service of the sequential specifications.
IdleCallers ==
    /\ calls = [c \in Callers |-> IdleCall]
    /\ locks = [l \in Locks |-> "free"]
    /\ breakers_created = [p \in PspNames |-> 0]

\* The service left as constructed, for the specifications of the single objects.
IdleService ==
    /\ circuit_breakers = EmptyMap
    /\ retry_states = EmptyMap
    /\ IdleCallers

\* CircuitBreaker::new(config)
InitCB ==
    /\ config \in CircuitBreakerConfig
    /\ cb = CircuitBreakerState_default
    /\ now \in 0..MaxTime
    /\ mono = TRUE
    /\ last = Call("new", FALSE, CircuitBreakerState_default)
    /\ script = ScriptStart
    /\ episode = 0
    /\ carried = 0
    /\ streak = StreakStart
    /\ InitDLQ
    /\ IdlePolicy
    /\ IdleService

\* The wall clock (SystemTime::now) moves between calls; nothing makes it monotonic.
Tick ==
    /\ \E t \in 0..MaxTime :
          /\ t # now
          /\ now' = t
          /\ mono' = (mono /\ t >= now)
    /\ last' = Call("tick", FALSE, cb)
    /\ UNCHANGED <<config, cb, script, episode, streak, carried>>

can_proceed ==
    /\ cb' = can_proceed_state(cb, now)
    /\ episode' = episode_after("can_proceed", cb, cb', episode)
    /\ carried' = carried_after(cb, cb', episode, carried)
    /\ last' = Call("can_proceed", can_proceed_result(cb, now), cb)
    /\ script' = script_can_proceed(script, config)
    /\ streak' = StreakOff
    /\ UNCHANGED <<config, now, mono>>

record_success ==
    /\ cb' = record_success_state(cb, config)
    /\ episode' = episode_after("record_success", cb, cb', episode)
    /\ carried' = carried_after(cb, cb', episode, carried)
    /\ last' = Call("record_success", FALSE, cb)
    /\ script' = script_success(script, config)
    /\ streak' = streak_success(streak)
    /\ UNCHANGED <<config, now, mono>>

record_failure ==
    /\ cb' = record_failure_state(cb, config, now)
    /\ episode' = episode_after("record_failure", cb, cb', episode)
    /\ carried' = carried_after(cb, cb', episode, carried)
    /\ last' = Call("record_failure", FALSE, cb)
    /\ script' = script_failure(script)
    /\ streak' = streak_failure(streak, config)
    /\ UNCHANGED <<config, now, mono>>

\* get_state returns a clone of the record; `last.pre` is that clone.
get_state ==
    /\ last' = Call("get_state", FALSE, cb)
    /\ UNCHANGED <<config, cb, now, mono, script, episode, streak, carried>>

reset ==
    /\ cb' = CircuitBreakerState_default
    /\ episode' = episode_after("reset", cb, cb', episode)
    /\ carried' = carried_after(cb, cb', episode, carried)
    /\ last' = Call("reset", FALSE, cb)
    /\ script' = ScriptOff
    /\ streak' = StreakOff
    /\ UNCHANGED <<config, now, mono>>

NextCB ==
    \/ Tick /\ UNCHANGED <<dlqVars, polVars, svcVars, concVars>>
    \/ can_proceed /\ UNCHANGED <<dlqVars, polVars, svcVars, concVars>>
    \/ record_success /\ UNCHANGED <<dlqVars, polVars, svcVars, concVars>>
    \/ record_failure /\ UNCHANGED <<dlqVars, polVars, svcVars, concVars>>
    \/ get_state /\ UNCHANGED <<dlqVars, polVars, svcVars, concVars>>
    \/ reset /\ UNCHANGED <<dlqVars, polVars, svcVars, concVars>>

SpecCB == InitCB /\ [][NextCB]_vars

\* A clock that advances for ever, one millisecond at a time.  The methods
\* compare `now` with next_attempt_at_ms and add timeout_duration_ms to it
\* and do nothing else with a time, so a state means the same with every time
\* in it moved by one amount: once the reading has reached MaxTime, the next
\* millisecond is written as the same reading with the times kept in the
\* breaker moved back by one.  A time that would pass below 0 stays 0, which
\* is as much in the past of every reading as it was.
moved_back(s) ==
    [s EXCEPT !.last_failure_at_ms = Max(@ - 1, 0),
              !.next_attempt_at_ms = Max(@ - 1, 0)]

Advance ==
    /\ IF now < MaxTime
       THEN now' = now + 1 /\ cb' = cb
       ELSE now' = now /\ cb' = moved_back(cb)
    /\ last' = Call("tick", FALSE, cb')
    /\ UNCHANGED <<config, mono, script, episode, streak, carried>>

AdvanceLive == Advance /\ UNCHANGED <<dlqVars, polVars, svcVars, concVars>>

can_proceedLive == can_proceed /\ UNCHANGED <<dlqVars, polVars, svcVars, concVars>>

NextLive ==
    \/ AdvanceLive
    \/ can_proceedLive
    \/ record_success /\ UNCHANGED <<dlqVars, polVars, svcVars, concVars>>
    \/ record_failure /\ UNCHANGED <<dlqVars, polVars, svcVars, concVars>>
    \/ get_state /\ UNCHANGED <<dlqVars, polVars, svcVars, concVars>>
    \/ reset /\ UNCHANGED <<dlqVars, polVars, svcVars, concVars>>

\* The breaker with a clock that keeps advancing and a caller that keeps
\* asking can_proceed; the other calls come or do not come.
SpecLive ==
    InitCB /\ [][NextLive]_vars /\ WF_vars(AdvanceLive) /\ WF_vars(can_proceedLive)

\* The breaker left as created, for the specifications of the other objects.
IdleBreaker ==
    /\ config = [failure_threshold |-> 0, success_threshold |-> 0, timeout_duration_ms |-> 0]
    /\ cb = CircuitBreakerState_default
    /\ now = 0
    /\ mono = TRUE
    /\ last = Call("new", FALSE, CircuitBreakerState_default)
    /\ script = ScriptStart
    /\ episode = 0
    /\ carried = 0
    /\ streak = StreakStart

\* One queue on its own: breaker and policy stay as created.
InitDLQOnly ==
    /\ IdleBreaker
    /\ InitDLQ
    /\ IdlePolicy
    /\ IdleService

NextDLQ ==
    \/ add_entry /\ UNCHANGED <<cbVars, polVars, svcVars, concVars>>
    \/ contains /\ UNCHANGED <<cbVars, polVars, svcVars, concVars>>
    \/ get_entry /\ UNCHANGED <<cbVars, polVars, svcVars, concVars>>
    \/ get_all_entries /\ UNCHANGED <<cbVars, polVars, svcVars, concVars>>
    \/ remove_entry /\ UNCHANGED <<cbVars, polVars, svcVars, concVars>>
    \/ count /\ UNCHANGED <<cbVars, polVars, svcVars, concVars>>

SpecDLQ == InitDLQOnly /\ [][NextDLQ]_vars

\* One policy on its own: breaker and queue stay as created.
InitPolicyOnly ==
    /\ IdleBreaker
    /\ InitDLQ
    /\ InitPolicy
    /\ IdleService

NextPolicy ==
    \/ calculate_delay /\ UNCHANGED <<cbVars, dlqVars, svcVars, concVars>>
    \/ should_retry /\ UNCHANGED <<cbVars, dlqVars, svcVars, concVars>>

SpecPolicy == InitPolicyOnly /\ [][NextPolicy]_vars

\* ------------------------------------------------- the service: specification

\* main.rs builds the service from one CircuitBreakerConfig and one RetryConfig
\* (the defaults: thresholds 5 and 3, 30000 ms; 5 attempts, 1000 ms doubling to
\* 60000 ms, jitter).  The values here are those scaled down: the breaker opens
\* at the first failure and closes at the first success, the timeout is one
\* clock step, two attempts, 5 ms doubling to at most 10 ms, jitter.
ServiceCircuitConfigs ==
    {[failure_threshold |-> 1, success_threshold |-> 1, timeout_duration_ms |-> 1]}
ServiceRetryConfigs ==
    {[max_attempts |-> 2, initial_delay_ms |-> 5, max_delay_ms |-> 10,
      backoff_multiplier |-> [num |-> 2, den |-> 1], jitter |-> TRUE]}
\* The wall-clock readings while the service runs.
ServiceTimes == {0, 1}

\* RetryEngineService::new(retry_config, circuit_config): empty registries, an
\* empty queue.
InitService ==
    /\ config \in ServiceCircuitConfigs
    /\ rconfig \in ServiceRetryConfigs
    /\ now \in ServiceTimes
    /\ cb = CircuitBreakerState_default
    /\ mono = TRUE
    /\ last = Call("new", FALSE, CircuitBreakerState_default)
    /\ script = ScriptStart
    /\ episode = 0
    /\ carried = 0
    /\ streak = StreakStart
    /\ InitDLQ
    /\ pol = PolNew
    /\ IdleService

\* What a service step leaves alone besides the registries and the queue.
svcFrame ==
    <<config, cb, mono, last, script, episode, streak, carried, dq, ledger, polVars, concVars>>

schedule_retry ==
    \E req \in RetryRequest :
        /\ circuit_breakers' = schedule_retry_breakers(entries, circuit_breakers, req, now)
        /\ entries' = schedule_retry_entries(entries, circuit_breakers, rconfig, req, now)
        /\ retry_states' =
               schedule_retry_states(entries, circuit_breakers, rconfig, retry_states, req, now)
        /\ UNCHANGED <<now, svcFrame>>

get_circuit_status ==
    \E p \in PspNames :
        /\ circuit_breakers' = get_or_create_circuit_breaker(circuit_breakers, p)
        /\ UNCHANGED <<now, entries, retry_states, svcFrame>>

get_retry_status ==
    \E tid \in TransactionIds :
        /\ entries' = get_retry_status_entries(entries, tid)
        /\ retry_states' = get_retry_status_states(retry_states, tid)
        /\ UNCHANGED <<now, circuit_breakers, svcFrame>>

\* The outcome of a provider call reaches that provider's breaker through the
\* handle the registry keeps: record_failure, record_success and reset are
\* public methods of CircuitBreaker and act on the shared state.
provider_record_failure ==
    \E p \in DOMAIN circuit_breakers :
        /\ circuit_breakers' =
               [circuit_breakers EXCEPT ![p] = record_failure_state(@, config, now)]
        /\ UNCHANGED <<now, entries, retry_states, svcFrame>>

provider_record_success ==
    \E p \in DOMAIN circuit_breakers :
        /\ circuit_breakers' =
               [circuit_breakers EXCEPT ![p] = record_success_state(@, config)]
        /\ UNCHANGED <<now, entries, retry_states, svcFrame>>

provider_reset ==
    \E p \in DOMAIN circuit_breakers :
        /\ circuit_breakers' = [circuit_breakers EXCEPT ![p] = CircuitBreakerState_default]
        /\ UNCHANGED <<now, entries, retry_states, svcFrame>>

\* The wall clock between two calls on the service.
ServiceTick ==
    /\ \E t \in ServiceTimes :
          /\ t # now
          /\ now' = t
    /\ UNCHANGED <<entries, retry_states, circuit_breakers, svcFrame>>

NextService ==
    \/ schedule_retry
    \/ get_circuit_status
    \/ get_retry_status
    \/ provider_record_failure
    \/ provider_record_success
    \/ provider_reset
    \/ ServiceTick

SpecService == InitService /\ [][NextService]_vars

\* The service reached through its three handlers only: no provider call
\* reports its outcome to a breaker.
NextHandlers ==
    \/ schedule_retry
    \/ get_circuit_status
    \/ get_retry_status
    \/ ServiceTick

SpecHandlers == InitService /\ [][NextHandlers]_vars

\* ------------------------------------ the service: concurrent specification

InitConcurrent ==
    /\ config \in ServiceCircuitConfigs
    /\ rconfig \in ServiceRetryConfigs
    /\ now \in ServiceTimes
    /\ cb = CircuitBreakerState_default
    /\ mono = TRUE
    /\ last = Call("new", FALSE, CircuitBreakerState_default)
    /\ script = ScriptStart
    /\ episode = 0
    /\ carried = 0
    /\ streak = StreakStart
    /\ InitDLQ
    /\ pol = PolNew
    /\ IdleService

\* What a step of a handler leaves alone besides the service and the handlers.
concFrame == <<cbVars, dq, ledger, polVars>>

\* A request arrives: the handler starts at its first lock().
Begin(c) ==
    /\ calls[c].op = "idle"
    /\ \/ \E req \in RetryRequest :
             calls' = [calls EXCEPT ![c] =
                 [IdleCall EXCEPT !.op = "schedule_retry", !.pc = "contains_lock",
                                  !.transaction_id = req.transaction_id,
                                  !.psp_name = req.psp_name,
                                  !.attempt_number = req.attempt_number]]
       \/ \E p \in PspNames :
             calls' = [calls EXCEPT ![c] =
                 [IdleCall EXCEPT !.op = "get_circuit_status", !.pc = "registry_lock",
                                  !.psp_name = p]]
       \/ \E tid \in TransactionIds :
             calls' = [calls EXCEPT ![c] =
                 [IdleCall EXCEPT !.op = "get_retry_status", !.pc = "get_entry_lock",
                                  !.transaction_id = tid]]
    /\ UNCHANGED <<locks, breakers_created, entries, circuit_breakers, retry_states, concFrame>>

\* lock().unwrap() returns.
Acquire(c) ==
    /\ calls[c].pc \in LockPcs
    /\ can_lock(locks, lock_of(calls[c]))
    /\ locks' = [locks EXCEPT ![lock_of(calls[c])] = c]
    /\ calls' = [calls EXCEPT ![c].pc = locked_pc(calls[c].pc),
                              ![c].acquired = Append(@, lock_of(calls[c])[1])]
    /\ UNCHANGED <<breakers_created, entries, circuit_breakers, retry_states, concFrame>>

\* schedule_retry: self.dlq.contains(&transaction_id)
Contains(c) ==
    /\ calls[c].pc = "contains"
    /\ locks' = unlock(locks, <<"entries", "">>)
    /\ calls' = IF contains_result(entries, calls[c].transaction_id)
                THEN [calls EXCEPT ![c].pc = "done", ![c].result = "in_dlq"]
                ELSE [calls EXCEPT ![c].pc = "registry_lock"]
    /\ UNCHANGED <<breakers_created, entries, circuit_breakers, retry_states, concFrame>>

\* get_or_create_circuit_breaker: breakers.entry(psp_name) finds the entry
\* occupied or vacant.
RegistryEntry(c) ==
    /\ calls[c].pc = "registry_entry"
    /\ calls' = [calls EXCEPT ![c].pc = "registry_insert",
                              ![c].vacant = (calls[c].psp_name \notin DOMAIN circuit_breakers)]
    /\ UNCHANGED <<locks, breakers_created, entries, circuit_breakers, retry_states, concFrame>>

\* get_or_create_circuit_breaker: or_insert_with puts CircuitBreaker::new()
\* in a vacant entry; the clone returned shares the state of the breaker in
\* the registry.
RegistryInsert(c) ==
    /\ calls[c].pc = "registry_insert"
    /\ LET p == calls[c].psp_name
           made == IF calls[c].vacant THEN breakers_created[p] + 1 ELSE breakers_created[p]
       IN /\ circuit_breakers' =
                 IF calls[c].vacant
                 THEN map_insert(circuit_breakers, p, CircuitBreakerState_default)
                 ELSE circuit_breakers
          /\ breakers_created' = [breakers_created EXCEPT ![p] = made]
          /\ calls' = [calls EXCEPT
                 ![c].handle = made,
                 ![c].pc = IF calls[c].op = "schedule_retry"
                           THEN "can_proceed_lock" ELSE "get_state_lock"]
    /\ locks' = unlock(locks, <<"circuit_breakers", "">>)
    /\ UNCHANGED <<entries, retry_states, concFrame>>

\* schedule_retry: circuit_breaker.can_proceed(), then should_retry(attempt).
CanProceed(c) ==
    /\ calls[c].pc = "can_proceed"
    /\ LET p == calls[c].psp_name
       IN /\ circuit_breakers' =
                 [circuit_breakers EXCEPT ![p] = can_proceed_state(@, now)]
          /\ calls' =
                 IF ~can_proceed_result(circuit_breakers[p], now)
                 THEN [calls EXCEPT ![c].pc = "done", ![c].result = "circuit_open"]
                 ELSE IF ~should_retry_result(rconfig, as_u32(calls[c].attempt_number))
                 THEN [calls EXCEPT ![c].pc = "add_entry_lock"]
                 ELSE [calls EXCEPT ![c].pc = "insert_lock"]
          /\ locks' = unlock(locks, <<"state", p>>)
    /\ UNCHANGED <<breakers_created, entries, retry_states, concFrame>>

\* schedule_retry: self.dlq.add_entry(dlq_entry)
AddEntry(c) ==
    /\ calls[c].pc = "add_entry"
    /\ entries' = add_entry_map(entries,
           exhausted_entry([transaction_id |-> calls[c].transaction_id,
                            psp_name |-> calls[c].psp_name,
                            attempt_number |-> calls[c].attempt_number,
                            payload |-> <<1>>], now))
    /\ calls' = [calls EXCEPT ![c].pc = "done", ![c].result = "exhausted"]
    /\ locks' = unlock(locks, <<"entries", "">>)
    /\ UNCHANGED <<breakers_created, circuit_breakers, retry_states, concFrame>>

\* schedule_retry: states.insert(...), the response, the guard dropped.
Insert(c) ==
    /\ calls[c].pc = "insert"
    /\ retry_states' = map_insert(retry_states, calls[c].transaction_id,
                                  RetryState(as_u32(calls[c].attempt_number), now))
    /\ calls' = [calls EXCEPT ![c].pc = "done", ![c].result = "scheduled"]
    /\ locks' = unlock(locks, <<"retry_states", "">>)
    /\ UNCHANGED <<breakers_created, entries, circuit_breakers, concFrame>>

\* get_circuit_status: circuit_breaker.get_state()
GetState(c) ==
    /\ calls[c].pc = "get_state"
    /\ calls' = [calls EXCEPT ![c].pc = "done",
                              ![c].result = circuit_breakers[calls[c].psp_name].state]
    /\ locks' = unlock(locks, <<"state", calls[c].psp_name>>)
    /\ UNCHANGED <<breakers_created, entries, circuit_breakers, retry_states, concFrame>>

\* get_retry_status: self.dlq.get_entry(&transaction_id)
GetEntry(c) ==
    /\ calls[c].pc = "get_entry"
    /\ calls' = IF get_entry_result(entries, calls[c].transaction_id) # None
                THEN [calls EXCEPT ![c].pc = "done", ![c].result = "IN_DLQ"]
                ELSE [calls EXCEPT ![c].pc = "get_lock"]
    /\ locks' = unlock(locks, <<"entries", "">>)
    /\ UNCHANGED <<breakers_created, entries, circuit_breakers, retry_states, concFrame>>

\* get_retry_status: states.get(&transaction_id)
Get(c) ==
    /\ calls[c].pc = "get"
    /\ calls' = [calls EXCEPT
           ![c].pc = "done",
           ![c].result = IF calls[c].transaction_id \in DOMAIN retry_states
                         THEN "RETRYING" ELSE "NOT_FOUND"]
    /\ locks' = unlock(locks, <<"retry_states", "">>)
    /\ UNCHANGED <<breakers_created, entries, circuit_breakers, retry_states, concFrame>>

\* The steps of one handler.
Step(c) ==
    \/ Acquire(c)
    \/ Contains(c)
    \/ RegistryEntry(c)
    \/ RegistryInsert(c)
    \/ CanProceed(c)
    \/ AddEntry(c)
    \/ Insert(c)
    \/ GetState(c)
    \/ GetEntry(c)
    \/ Get(c)

NextConcurrent ==
    \E c \in Callers :
        \/ Begin(c)
        \/ Step(c)

SpecConcurrent == InitConcurrent /\ [][NextConcurrent]_vars

\* The scheduler gives every running handler its turn.
SpecConcurrentFair ==
    SpecConcurrent /\ \A c \in Callers : WF_vars(Step(c))

\* ----------------------------------- circuit breaker: concurrent method calls

\* Several threads hold clones of one CircuitBreaker and call its methods at
\* once.  A method takes the state Mutex first and keeps the guard to its
\* end; between the two it assigns the fields one at a time.
Threads == {"t1", "t2", "t3"}

\* The Mutex of CircuitBreaker.state.
StateLock == <<"state", "">>

BreakerMethods == {"can_proceed", "record_success", "record_failure", "get_state", "reset"}

\* A thread that has not called yet.
IdleThread ==
    [op |-> "idle", pc |-> "idle", t |-> 0, pre |-> CircuitBreakerState_default,
     path |-> <<>>, k |-> 0, ret |-> FALSE, snapshot |-> CircuitBreakerState_default]

\* can_proceed: the values the struct takes, assignment by assignment.
can_proceed_path(s, t) ==
    IF s.state = "Open" /\ timeout_expired(s, t)
    THEN LET s1 == [s EXCEPT !.state = "HalfOpen"]
             s2 == [s1 EXCEPT !.success_count = 0]
         IN <<s1, s2>>
    ELSE <<>>

\* record_success: the values the struct takes, assignment by assignment.
record_success_path(s, c) ==
    IF s.state = "Closed" THEN <<[s EXCEPT !.failure_count = 0]>>
    ELSE IF s.state = "HalfOpen"
    THEN LET s1 == [s EXCEPT !.success_count = s.success_count + 1]
             s2 == [s1 EXCEPT !.state = "Closed"]
             s3 == [s2 EXCEPT !.failure_count = 0]
             s4 == [s3 EXCEPT !.success_count = 0]
         IN IF s1.success_count >= c.success_threshold
            THEN <<s1, s2, s3, s4>> ELSE <<s1>>
    ELSE LET s1 == [s EXCEPT !.state = "Closed"]
             s2 == [s1 EXCEPT !.failure_count = 0]
             s3 == [s2 EXCEPT !.success_count = 0]
         IN <<s1, s2, s3>>

\* record_failure: the values the struct takes, assignment by assignment.
record_failure_path(s, c, t) ==
    LET s0 == [s EXCEPT !.last_failure_at_ms = t]
    IN IF s.state = "Closed"
       THEN LET s1 == [s0 EXCEPT !.failure_count = s.failure_count + 1]
                s2 == [s1 EXCEPT !.state = "Open"]
                s3 == [s2 EXCEPT !.next_attempt_at_ms = t + c.timeout_duration_ms]
            IN IF s1.failure_count >= c.failure_threshold
               THEN <<s0, s1, s2, s3>> ELSE <<s0, s1>>
       ELSE IF s.state = "HalfOpen"
       THEN LET s1 == [s0 EXCEPT !.state = "Open"]
                s2 == [s1 EXCEPT !.failure_count = c.failure_threshold]
                s3 == [s2 EXCEPT !.success_count = 0]
                s4 == [s3 EXCEPT !.next_attempt_at_ms = t + c.timeout_duration_ms]
            IN <<s0, s1, s2, s3, s4>>
       ELSE <<s0, [s0 EXCEPT !.next_attempt_at_ms = t + c.timeout_duration_ms]>>

\* The assignments a method makes under the guard, started in state s at time t.
method_path(op, s, c, t) ==
    IF op = "can_proceed" THEN can_proceed_path(s, t)
    ELSE IF op = "record_success" THEN record_success_path(s, c)
    ELSE IF op = "record_failure" THEN record_failure_path(s, c, t)
    ELSE IF op = "reset" THEN <<CircuitBreakerState_default>>
    ELSE <<>>

\* The state a method leaves when nothing runs beside it.
method_state(op, s, c, t) ==
    IF op = "can_proceed" THEN can_proceed_state(s, t)
    ELSE IF op = "record_success" THEN record_success_state(s, c)
    ELSE IF op = "record_failure" THEN record_failure_state(s, c, t)
    ELSE IF op = "reset" THEN CircuitBreakerState_default
    ELSE s

\* The configurations of the breaker the threads share.
ThreadConfigs ==
    [failure_threshold : 1..2, success_threshold : 1..2, timeout_duration_ms : {1}]

InitThreads ==
    /\ config \in ThreadConfigs
    /\ cb = CircuitBreakerState_default
    /\ now \in ServiceTimes
    /\ mono = TRUE
    /\ last = Call("new", FALSE, CircuitBreakerState_default)
    /\ script = ScriptStart
    /\ episode = 0
    /\ carried = 0
    /\ streak = StreakStart
    /\ InitDLQ
    /\ IdlePolicy
    /\ circuit_breakers = EmptyMap
    /\ retry_states = EmptyMap
    /\ calls = [c \in Threads |-> IdleThread]
    /\ locks = [l \in {StateLock} |-> "free"]
    /\ breakers_created = [p \in PspNames |-> 0]

\* What a step of a thread leaves alone besides the breaker and the threads.
threadFrame ==
    <<config, mono, last, script, episode, streak, carried, dlqVars, polVars, svcVars, breakers_created>>

\* A thread calls a method of the breaker.
ThreadCall(c) ==
    /\ calls[c].op = "idle"
    /\ \E op \in BreakerMethods :
          calls' = [calls EXCEPT ![c] = [IdleThread EXCEPT !.op = op, !.pc = "lock"]]
    /\ UNCHANGED <<cb, now, locks, threadFrame>>

\* self.state.lock().unwrap() returns; the methods that need the time read
\* the clock next, and the match picks the arm.
ThreadLock(c) ==
    /\ calls[c].pc = "lock"
    /\ can_lock(locks, StateLock)
    /\ locks' = [locks EXCEPT ![StateLock] = c]
    /\ calls' = [calls EXCEPT ![c].pc = "body",
                              ![c].t = now,
                              ![c].pre = cb,
                              ![c].path = method_path(calls[c].op, cb, config, now),
                              ![c].ret = IF calls[c].op = "can_proceed"
                                         THEN can_proceed_result(cb, now) ELSE FALSE]
    /\ UNCHANGED <<cb, now, threadFrame>>

\* One assignment to a field of the state.
ThreadAssign(c) ==
    /\ calls[c].pc = "body"
    /\ calls[c].k < Len(calls[c].path)
    /\ cb' = calls[c].path[calls[c].k + 1]
    /\ calls' = [calls EXCEPT ![c].k = calls[c].k + 1]
    /\ UNCHANGED <<now, locks, threadFrame>>

\* The method returns and the guard is dropped; get_state clones the state
\* on its way out.
ThreadReturn(c) ==
    /\ calls[c].pc = "body"
    /\ calls[c].k = Len(calls[c].path)
    /\ calls' = [calls EXCEPT ![c].pc = "done", ![c].snapshot = cb]
    /\ locks' = unlock(locks, StateLock)
    /\ UNCHANGED <<cb, now, threadFrame>>

\* The wall clock while the threads run.
ThreadTick ==
    /\ \E t \in ServiceTimes :
          /\ t # now
          /\ now' = t
    /\ UNCHANGED <<cb, calls, locks, threadFrame>>

NextThreads ==
    \/ \E c \in Threads :
          \/ ThreadCall(c)
          \/ ThreadLock(c)
          \/ ThreadAssign(c)
          \/ ThreadReturn(c)
    \/ ThreadTick

SpecThreads == InitThreads /\ [][NextThreads]_vars

\* ------------------------------------------------- circuit breaker: claims

\* C1: for failure_threshold N >= 1, a breaker made by new() that has seen only
\* record_failure calls is Closed with failure_count = k after the k-th call
\* for k < N, and Open with failure_count = N after the N-th.
C1_OpensOnNthFailure ==
    (script.on /\ script.c = 0 /\ script.f >= 1 /\ config.failure_threshold >= 1) =>
        /\ script.f < config.failure_threshold =>
               cb.state = "Closed" /\ cb.failure_count = script.f
        /\ script.f = config.failure_threshold =>
               cb.state = "Open" /\ cb.failure_count = config.failure_threshold

C1_Witness ==
    /\ script.on /\ script.c = 0
    /\ config.failure_threshold = MaxThreshold
    /\ script.f = config.failure_threshold
    /\ last.op = "record_failure"
    /\ last.pre.state = "Closed"
    /\ last.pre.failure_count = config.failure_threshold - 1
    /\ cb.state = "Open"

\* C2: can_proceed on an Open breaker returns false and changes no field when
\* called before next_attempt_at_ms; called at or after it, it returns true and
\* leaves the breaker HalfOpen with success_count = 0.
C2_OpenGate ==
    (last.op = "can_proceed" /\ last.pre.state = "Open") =>
        /\ now < last.pre.next_attempt_at_ms =>
               last.ret = FALSE /\ cb = last.pre
        /\ now >= last.pre.next_attempt_at_ms =>
               last.ret = TRUE /\ cb.state = "HalfOpen" /\ cb.success_count = 0

C2_Witness ==
    /\ last.op = "can_proceed"
    /\ last.pre.state = "Open"
    /\ now < last.pre.next_attempt_at_ms
    /\ last.ret = FALSE
    /\ cb.state = "Open"

\* C3: record_failure on a HalfOpen breaker, whatever number of successes the
\* episode has accumulated, leaves it Open with failure_count =
\* failure_threshold, success_count = 0 and next_attempt_at_ms = now + timeout.
C3_HalfOpenFailureReopens ==
    (last.op = "record_failure" /\ last.pre.state = "HalfOpen") =>
        /\ last.pre.success_count < Max(config.success_threshold, 1)
        /\ cb.state = "Open"
        /\ cb.failure_count = config.failure_threshold
        /\ cb.success_count = 0
        /\ cb.next_attempt_at_ms = now + config.timeout_duration_ms

C3_Witness ==
    /\ last.op = "record_failure"
    /\ last.pre.state = "HalfOpen"
    /\ last.pre.success_count >= 1
    /\ cb.state = "Open"
    /\ cb.success_count = 0

\* C4: for success_threshold M >= 1 a HalfOpen breaker counts the successes of
\* its episode, stays HalfOpen after each of the first M-1 and becomes Closed
\* with both counters 0 exactly on the M-th.
C4_ClosesOnMthSuccess ==
    config.success_threshold >= 1 =>
        /\ cb.state = "HalfOpen" =>
               cb.success_count = episode /\ episode < config.success_threshold
        /\ (last.op = "record_success" /\ last.pre.state = "HalfOpen") =>
               IF last.pre.success_count + 1 = config.success_threshold
               THEN cb.state = "Closed" /\ cb.failure_count = 0 /\ cb.success_count = 0
               ELSE cb.state = "HalfOpen" /\ episode = last.pre.success_count + 1

C4_Witness ==
    /\ config.success_threshold = MaxThreshold
    /\ last.op = "record_success"
    /\ last.pre.state = "HalfOpen"
    /\ last.pre.success_count = config.success_threshold - 1
    /\ cb.state = "Closed"

\* C5: record_success on a Closed breaker sets failure_count to 0 and changes no
\* other field.
C5_ClosedSuccessResets ==
    (last.op = "record_success" /\ last.pre.state = "Closed") =>
        cb = [last.pre EXCEPT !.failure_count = 0]

C5_Witness ==
    /\ last.op = "record_success"
    /\ last.pre.state = "Closed"
    /\ last.pre.failure_count >= 1
    /\ cb.state = "Closed"
    /\ cb.failure_count = 0

\* C6: with timeout_duration_ms = 0 and a clock that never went backwards,
\* can_proceed never returns false and moves an Open breaker to HalfOpen; the
\* run (failure_threshold failures, can_proceed, success_threshold successes)
\* on a new breaker is Open after the failures, HalfOpen after can_proceed and
\* until the last success, and Closed after it (thresholds >= 1).
C6_ZeroTimeout ==
    (config.timeout_duration_ms = 0 /\ mono) =>
        /\ last.op = "can_proceed" =>
               /\ last.ret = TRUE
               /\ last.pre.state = "Open" => cb.state = "HalfOpen"
        /\ (script.on /\ config.failure_threshold >= 1 /\ config.success_threshold >= 1
                /\ script.f = config.failure_threshold) =>
               /\ script.c = 0 => cb.state = "Open"
               /\ (script.c = 1 /\ script.s < config.success_threshold) =>
                      cb.state = "HalfOpen"
               /\ (script.c = 1 /\ script.s = config.success_threshold) =>
                      cb.state = "Closed"

C6_Witness ==
    /\ config.timeout_duration_ms = 0 /\ mono
    /\ config.failure_threshold = 2 /\ config.success_threshold = 2
    /\ script.on /\ script.f = 2 /\ script.c = 1 /\ script.s = 2
    /\ last.op = "record_success"
    /\ last.pre.state = "HalfOpen"
    /\ cb.state = "Closed"

\* ----------------------------------------------- dead letter queue: claims

\* C7: add_entry under a transaction id that already has an entry replaces it
\* (get_entry returns the entry just added), count() stays the same, and the
\* queue holds one entry per transaction id, stored under that id.
C7_AddOverwrites ==
    /\ (dq.op = "add_entry" /\ dq.tid \in DOMAIN dq.pre) =>
           /\ get_entry_result(entries, dq.tid) = dq.arg
           /\ count_result(entries) = count_result(dq.pre)
    /\ \A t \in DOMAIN entries : entries[t].transaction_id = t
    /\ \A e1, e2 \in get_all_entries_result(entries) :
           e1.transaction_id = e2.transaction_id => e1 = e2
    /\ Cardinality(get_all_entries_result(entries)) = count_result(entries)

C7_Witness ==
    /\ dq.op = "add_entry"
    /\ dq.tid \in DOMAIN dq.pre
    /\ dq.arg # Some(dq.pre[dq.tid])
    /\ dq.arg = Some(entries[dq.tid])
    /\ count_result(entries) = 2

\* ---------------------------------------------------- retry policy: claims

\* The delay the documentation gives for attempt >= 1:
\* min(initial_delay * multiplier^(attempt - 1), max_delay), truncated.
backoff_formula(c, attempt) ==
    capped_product(c.initial_delay_ms, 1, c.backoff_multiplier.num,
                   c.backoff_multiplier.den, attempt - 1, c.max_delay_ms)

\* C8: calculate_delay(0) = 0 with or without jitter; with jitter disabled and
\* attempt >= 1 the delay is min(initial_delay * multiplier^(attempt-1),
\* max_delay) truncated, hence non-decreasing in attempt for a multiplier >= 1,
\* and 1000, 2000, 4000 for attempts 1..3 of the worked example.
C8_BackoffFormula ==
    /\ (pol.op = "calculate_delay" /\ pol.attempt = 0) => pol.delay = 0
    /\ (pol.op = "calculate_delay" /\ ~rconfig.jitter /\ pol.attempt >= 1) =>
           /\ pol.delay = backoff_formula(rconfig, pol.attempt)
           /\ rconfig.backoff_multiplier.num >= rconfig.backoff_multiplier.den =>
                  calculate_delay_result(rconfig, pol.attempt - 1, 0, FALSE) <= pol.delay
           /\ (rconfig = ScenarioA /\ pol.attempt <= 3) =>
                  pol.delay = <<1000, 2000, 4000>>[pol.attempt]

\* C8 on the attempts whose exponent attempt - 1 the signed cast leaves alone.
C8_BackoffFormulaBelowCastWrap ==
    (pol.op = "calculate_delay" /\ pol.attempt <= 2^(AttemptBits - 1)) => C8_BackoffFormula

C8_BelowCastWrapWitness ==
    /\ pol.op = "calculate_delay"
    /\ rconfig = ScenarioA
    /\ pol.attempt = 3
    /\ pol.delay = 4000

\* C9: with jitter enabled and attempt >= 1 the delay lies between 0.8 and 1.2
\* times the un-jittered capped delay, never above max_delay and never below
\* 0; a capped delay equal to max_delay only stays or moves down.
C9_JitterBounded ==
    (pol.op = "calculate_delay" /\ rconfig.jitter /\ pol.attempt >= 1) =>
        LET base == calculate_delay_result([rconfig EXCEPT !.jitter = FALSE],
                                           pol.attempt, 0, FALSE)
        IN /\ 5 * pol.delay >= 4 * base
           /\ 5 * pol.delay <= 6 * base
           /\ pol.delay >= 0
           /\ pol.delay <= rconfig.max_delay_ms
           /\ base = rconfig.max_delay_ms => pol.delay <= base

C9_Witness ==
    /\ pol.op = "calculate_delay"
    /\ rconfig.jitter
    /\ pol.attempt >= 1
    /\ capped_delay(rconfig, pol.attempt) = rconfig.max_delay_ms
    /\ pol.plus /\ pol.jitter >= 1
    /\ pol.delay = rconfig.max_delay_ms

\* C10: should_retry(attempt) is true exactly when attempt < max_attempts: it is
\* false at attempt = max_attempts, and for every attempt when max_attempts = 0.
C10_ShouldRetry ==
    pol.op = "should_retry" =>
        /\ pol.retry = (pol.attempt < rconfig.max_attempts)
        /\ pol.attempt = rconfig.max_attempts => ~pol.retry
        /\ rconfig.max_attempts = 0 => ~pol.retry

C10_Witness ==
    /\ pol.op = "should_retry"
    /\ rconfig.max_attempts >= 1
    /\ pol.attempt = rconfig.max_attempts
    /\ ~pol.retry

\* --------------------------------------------------------- the service: claims

\* The calls of schedule_retry possible in the current state: a request and
\* the random draw of calculate_delay.
ScheduleRetryCalls ==
    {c \in RetryRequest \X ((0..jitter_range(rconfig.max_delay_ms)) \X BOOLEAN) :
        c[2] \in schedule_retry_draws(entries, circuit_breakers, rconfig, c[1], now)}

\* C11: schedule_retry for a transaction already in the dead letter queue
\* returns scheduled = false, next_retry_at_ms = 0 and the message "Transaction
\* already in dead letter queue", and leaves the queue, retry_states and
\* circuit_breakers as they were: no breaker is created for the provider named,
\* and no breaker moves from Open to HalfOpen even with its timeout elapsed.
C11_InDlqRejectedNoEffect ==
    \A c \in ScheduleRetryCalls :
        contains_result(entries, c[1].transaction_id) =>
            /\ schedule_retry_response(entries, circuit_breakers, rconfig, c[1], now, c[2])
                   = RetryResponse(c[1].transaction_id, FALSE, 0,
                                   "Transaction already in dead letter queue")
            /\ schedule_retry_entries(entries, circuit_breakers, rconfig, c[1], now) = entries
            /\ schedule_retry_states(entries, circuit_breakers, rconfig, retry_states, c[1], now)
                   = retry_states
            /\ schedule_retry_breakers(entries, circuit_breakers, c[1], now) = circuit_breakers

\* A dead-lettered transaction, one provider never seen and the other with its
\* breaker Open past its timeout: requests naming either are rejected.
C11_Witness ==
    \E tid \in DOMAIN entries, p \in PspNames, q \in DOMAIN circuit_breakers :
        /\ p \notin DOMAIN circuit_breakers
        /\ circuit_breakers[q].state = "Open"
        /\ timeout_expired(circuit_breakers[q], now)
        /\ \A r \in {p, q} :
              schedule_retry_branch(entries, circuit_breakers, rconfig,
                  [transaction_id |-> tid, psp_name |-> r, attempt_number |-> 0,
                   payload |-> <<1>>], now) = "in_dlq"

\* The provider's breaker lets the call through: can_proceed() on the breaker
\* fetched or created for the request returns true.
breaker_permits(req) ==
    can_proceed_result(
        get_or_create_circuit_breaker(circuit_breakers, req.psp_name)[req.psp_name], now)

\* C12: schedule_retry with attempt_number >= max_attempts, for a transaction
\* not in the dead letter queue and a provider whose breaker lets the call
\* through, puts one entry in the queue, under the transaction of the request
\* and carrying its provider, payload and attempt number, with every other
\* entry as it was; it returns scheduled = false, next_retry_at_ms = 0 and the
\* message "Max retries exceeded, moved to DLQ", does not reach calculate_delay
\* and leaves retry_states as they were.
C12_ExhaustedDeadLettered ==
    \A c \in ScheduleRetryCalls :
        LET req == c[1]
            after == schedule_retry_entries(entries, circuit_breakers, rconfig, req, now)
        IN (/\ ~contains_result(entries, req.transaction_id)
            /\ breaker_permits(req)
            /\ req.attempt_number >= rconfig.max_attempts) =>
               /\ DOMAIN after = (DOMAIN entries) \cup {req.transaction_id}
               /\ Cardinality(DOMAIN after) = Cardinality(DOMAIN entries) + 1
               /\ \A u \in DOMAIN entries : after[u] = entries[u]
               /\ after[req.transaction_id].transaction_id = req.transaction_id
               /\ after[req.transaction_id].psp_name = req.psp_name
               /\ after[req.transaction_id].payload = req.payload
               /\ after[req.transaction_id].attempt_count = req.attempt_number
               /\ schedule_retry_response(entries, circuit_breakers, rconfig, req, now, c[2])
                      = RetryResponse(req.transaction_id, FALSE, 0,
                                      "Max retries exceeded, moved to DLQ")
               /\ ~schedule_retry_computes_delay(entries, circuit_breakers, rconfig, req, now)
               /\ schedule_retry_states(entries, circuit_breakers, rconfig, retry_states, req, now)
                      = retry_states

\* The call has been made: a transaction dead-lettered at the present clock
\* reading with max_attempts attempts, through a breaker that was HalfOpen,
\* beside an entry made earlier for the other transaction.
C12_Witness ==
    \E tid \in DOMAIN entries :
        /\ entries[tid].attempt_count >= rconfig.max_attempts
        /\ entries[tid].last_error = "Max retry attempts exceeded"
        /\ entries[tid].timestamp_ms = now
        /\ entries[tid].psp_name \in DOMAIN circuit_breakers
        /\ circuit_breakers[entries[tid].psp_name].state = "HalfOpen"
        /\ tid \notin DOMAIN retry_states
        /\ \E u \in DOMAIN entries : u # tid /\ entries[u].timestamp_ms # now

\* C13: while the provider's breaker is Open and its timeout has not elapsed,
\* schedule_retry for a transaction not in the dead letter queue returns
\* scheduled = false, next_retry_at_ms = 0 and the message "Circuit breaker
\* open for PSP: <provider>", whatever the attempt number, and leaves the
\* queue, retry_states and the breakers as they were: a request with
\* attempt_number >= max_attempts is not dead-lettered.
C13_OpenCircuitRejectedNoEffect ==
    \A c \in ScheduleRetryCalls :
        LET req == c[1]
        IN (/\ ~contains_result(entries, req.transaction_id)
            /\ req.psp_name \in DOMAIN circuit_breakers
            /\ circuit_breakers[req.psp_name].state = "Open"
            /\ ~timeout_expired(circuit_breakers[req.psp_name], now)) =>
               /\ schedule_retry_response(entries, circuit_breakers, rconfig, req, now, c[2])
                      = RetryResponse(req.transaction_id, FALSE, 0,
                                      "Circuit breaker open for PSP: " \o req.psp_name)
               /\ schedule_retry_entries(entries, circuit_breakers, rconfig, req, now) = entries
               /\ schedule_retry_states(entries, circuit_breakers, rconfig, retry_states, req, now)
                      = retry_states
               /\ schedule_retry_breakers(entries, circuit_breakers, req, now)
                      = circuit_breakers

\* A provider whose breaker is Open before its timeout, and a transaction not
\* dead-lettered: the request with max_attempts attempts for them is rejected.
C13_Witness ==
    \E c \in ScheduleRetryCalls :
        /\ ~contains_result(entries, c[1].transaction_id)
        /\ c[1].psp_name \in DOMAIN circuit_breakers
        /\ circuit_breakers[c[1].psp_name].state = "Open"
        /\ ~timeout_expired(circuit_breakers[c[1].psp_name], now)
        /\ c[1].attempt_number >= rconfig.max_attempts
        /\ schedule_retry_branch(entries, circuit_breakers, rconfig, c[1], now) = "circuit_open"

\* C14: schedule_retry returns scheduled = true exactly when the transaction
\* is not in the dead letter queue, can_proceed() on the provider's breaker
\* returned true and attempt_number < max_attempts.  Then next_retry_at_ms is
\* the clock reading plus calculate_delay(attempt_number), which lies between
\* the reading and the reading plus max_delay_ms; retry_states holds for the
\* transaction a state with attempt_count = attempt_number, put there or
\* written over the one before, the other transactions' states are as they
\* were, and the dead letter queue is as it was.
C14_ScheduledIff ==
    \A c \in ScheduleRetryCalls :
        LET req == c[1]
            resp == schedule_retry_response(entries, circuit_breakers, rconfig, req, now, c[2])
            after == schedule_retry_states(entries, circuit_breakers, rconfig,
                                           retry_states, req, now)
        IN /\ resp.scheduled <=>
                  /\ ~contains_result(entries, req.transaction_id)
                  /\ breaker_permits(req)
                  /\ req.attempt_number < rconfig.max_attempts
           /\ resp.scheduled =>
                  /\ resp.next_retry_at_ms
                         = now + calculate_delay_result(rconfig, req.attempt_number,
                                                        c[2][1], c[2][2])
                  /\ now <= resp.next_retry_at_ms
                  /\ resp.next_retry_at_ms <= now + rconfig.max_delay_ms
                  /\ DOMAIN after = (DOMAIN retry_states) \cup {req.transaction_id}
                  /\ after[req.transaction_id].attempt_count = req.attempt_number
                  /\ \A u \in (DOMAIN retry_states) \ {req.transaction_id} :
                        after[u] = retry_states[u]
                  /\ schedule_retry_entries(entries, circuit_breakers, rconfig, req, now)
                         = entries

\* A retry is scheduled for a transaction that has a retry state from an
\* earlier attempt, with a delay above zero, while the other transaction is
\* dead-lettered.
C14_Witness ==
    \E c \in ScheduleRetryCalls :
        /\ c[1].transaction_id \in DOMAIN retry_states
        /\ retry_states[c[1].transaction_id].attempt_count # c[1].attempt_number
        /\ retry_states[c[1].transaction_id].last_attempt_at_ms # now
        /\ \E u \in DOMAIN entries : u # c[1].transaction_id
        /\ schedule_retry_response(entries, circuit_breakers, rconfig, c[1], now, c[2]).scheduled
        /\ schedule_retry_response(entries, circuit_breakers, rconfig, c[1], now, c[2])
               .next_retry_at_ms > now

\* C15: get_circuit_status for a provider not in the registry puts a breaker
\* as made by new() there and reports Closed with failure_count = 0 and
\* success_count = 0; for a provider in the registry it reports the fields of
\* its breaker and leaves the registry as it was, an Open breaker staying Open
\* at or after next_attempt_at_ms.
C15_CircuitStatus ==
    \A p \in PspNames :
        LET resp == get_circuit_status_response(circuit_breakers, p)
            after == get_or_create_circuit_breaker(circuit_breakers, p)
        IN /\ p \notin DOMAIN circuit_breakers =>
                  /\ DOMAIN after = (DOMAIN circuit_breakers) \cup {p}
                  /\ after[p] = CircuitBreakerState_default
                  /\ \A q \in DOMAIN circuit_breakers : after[q] = circuit_breakers[q]
                  /\ resp.state = "Closed"
                  /\ resp.failure_count = 0
                  /\ resp.success_count = 0
           /\ p \in DOMAIN circuit_breakers =>
                  /\ after = circuit_breakers
                  /\ resp.psp_name = p
                  /\ resp.state = circuit_breakers[p].state
                  /\ resp.failure_count = circuit_breakers[p].failure_count
                  /\ resp.success_count = circuit_breakers[p].success_count
                  /\ resp.last_failure_at_ms = circuit_breakers[p].last_failure_at_ms
                  /\ resp.next_attempt_at_ms = circuit_breakers[p].next_attempt_at_ms

\* One provider's breaker is Open past its timeout and reported Open; the
\* other provider has not been seen yet.
C15_Witness ==
    \E p \in DOMAIN circuit_breakers, q \in PspNames :
        /\ q \notin DOMAIN circuit_breakers
        /\ circuit_breakers[p].state = "Open"
        /\ now >= circuit_breakers[p].next_attempt_at_ms
        /\ get_circuit_status_response(circuit_breakers, p).state = "Open"

\* C16: get_retry_status reports IN_DLQ, with the attempt count and last error
\* of the dead letter entry, for a transaction in the dead letter queue, also
\* when it has a retry state; otherwise RETRYING with the attempt count of the
\* retry state when it has one; otherwise NOT_FOUND with attempt count 0.  It
\* leaves the queue and retry_states as they were.
C16_RetryStatus ==
    \A tid \in TransactionIds :
        LET resp == get_retry_status_response(entries, retry_states, tid)
        IN /\ tid \in DOMAIN entries =>
                  /\ resp.status = "IN_DLQ"
                  /\ resp.in_dlq
                  /\ resp.attempt_count = entries[tid].attempt_count
                  /\ resp.last_error = entries[tid].last_error
           /\ (tid \notin DOMAIN entries /\ tid \in DOMAIN retry_states) =>
                  /\ resp.status = "RETRYING"
                  /\ ~resp.in_dlq
                  /\ resp.attempt_count = retry_states[tid].attempt_count
           /\ (tid \notin DOMAIN entries /\ tid \notin DOMAIN retry_states) =>
                  /\ resp.status = "NOT_FOUND"
                  /\ ~resp.in_dlq
                  /\ resp.attempt_count = 0
           /\ get_retry_status_entries(entries, tid) = entries
           /\ get_retry_status_states(retry_states, tid) = retry_states

\* One transaction is dead-lettered and still has the retry state of an
\* earlier attempt, with another attempt count; the other has a retry state only.
C16_Witness ==
    \E tid \in DOMAIN entries, u \in DOMAIN retry_states :
        /\ tid \in DOMAIN retry_states
        /\ retry_states[tid].attempt_count # entries[tid].attempt_count
        /\ get_retry_status_response(entries, retry_states, tid).status = "IN_DLQ"
        /\ u \notin DOMAIN entries
        /\ get_retry_status_response(entries, retry_states, u).status = "RETRYING"

\* C17: however schedule_retry and get_circuit_status calls interleave, at
\* most one breaker is ever made for a provider: the registry holds a breaker
\* for the provider exactly when one has been made, so the breaker is neither
\* replaced nor removed, and every handler that has fetched the provider's
\* breaker holds that one breaker and shares its state.
C17_OneBreakerPerProvider ==
    /\ \A p \in PspNames :
          /\ breakers_created[p] <= 1
          /\ (p \in DOMAIN circuit_breakers) <=> (breakers_created[p] = 1)
    /\ \A c \in Callers :
          calls[c].handle # 0 =>
              /\ calls[c].handle = 1
              /\ calls[c].psp_name \in DOMAIN circuit_breakers

\* schedule_retry and get_circuit_status run at once for one provider never
\* seen: one has found the registry entry vacant and holds the registry guard,
\* the other waits at lock().
C17_Witness ==
    \E c, e \in Callers :
        /\ calls[c].op = "schedule_retry"
        /\ calls[e].op = "get_circuit_status"
        /\ calls[c].psp_name = calls[e].psp_name
        /\ calls[c].psp_name \notin DOMAIN circuit_breakers
        /\ \/ calls[c].pc = "registry_insert" /\ calls[c].vacant
                 /\ calls[e].pc = "registry_lock"
           \/ calls[e].pc = "registry_insert" /\ calls[e].vacant
                 /\ calls[c].pc = "registry_lock"

\* The place of each kind of Mutex in the order breaker registry, breaker,
\* dead letter queue, retry states.
lock_rank(kind) ==
    IF kind = "circuit_breakers" THEN 1
    ELSE IF kind = "state" THEN 2
    ELSE IF kind = "entries" THEN 3
    ELSE 4

\* The Mutexes whose guard a handler holds.
held(c) == {l \in Locks : locks[l] = c}

IsPrefix(a, b) == Len(a) <= Len(b) /\ \A i \in 1..Len(a) : a[i] = b[i]

\* C19, as stated: within one schedule_retry call the locks are acquired in
\* the order breaker registry, breaker, dead letter queue, retry states: no
\* lock earlier in this order is acquired after one later in it.
C19_FixedLockOrder ==
    \A c \in Callers :
        calls[c].op = "schedule_retry" =>
            \A i, j \in 1..Len(calls[c].acquired) :
                i < j => lock_rank(calls[c].acquired[i]) <= lock_rank(calls[c].acquired[j])

\* C19, amended: within one schedule_retry call the locks are taken one at a
\* time, each guard dropped before the next lock(), in the sequence dead
\* letter queue (contains), breaker registry, breaker, and then the dead
\* letter queue again (add_entry) or the retry states (insert).
C19_OneLockAtATimeInSequence ==
    \A c \in Callers :
        calls[c].op = "schedule_retry" =>
            /\ Cardinality(held(c)) <= 1
            /\ \/ IsPrefix(calls[c].acquired,
                           <<"entries", "circuit_breakers", "state", "entries">>)
               \/ IsPrefix(calls[c].acquired,
                           <<"entries", "circuit_breakers", "state", "retry_states">>)

\* A call that went all the way to add_entry while the other handler waits
\* for the dead letter queue.
C19_Witness ==
    \E c, e \in Callers :
        /\ calls[c].op = "schedule_retry"
        /\ calls[c].pc = "add_entry"
        /\ calls[c].acquired = <<"entries", "circuit_breakers", "state", "entries">>
        /\ held(c) = {<<"entries", "">>}
        /\ calls[e].pc = "contains_lock"

\* A handler that has been called and has not returned.
running(c) == calls[c].op # "idle" /\ calls[c].pc # "done"

\* C20: with every running handler given its turn, every call of
\* schedule_retry, get_circuit_status and get_retry_status returns, whatever
\* the other handler does; while a handler runs some handler can take a step
\* (no deadlock); and a handler waiting at lock() holds no guard.
C20_EveryCallReturns ==
    /\ [](\A c \in Callers : calls[c].pc \in LockPcs => held(c) = {})
    /\ []((\E c \in Callers : running(c)) => (\E c \in Callers : ENABLED Step(c)))
    /\ \A c \in Callers : running(c) ~> (calls[c].pc = "done")

\* Both handlers want the dead letter queue: one holds its guard, the other
\* waits at lock().
C20_Witness ==
    \E c, e \in Callers :
        /\ calls[c].pc = "add_entry"
        /\ calls[e].pc \in LockPcs
        /\ lock_of(calls[e]) = <<"entries", "">>
        /\ locks[<<"entries", "">>] = c
        /\ ~ENABLED Step(e)

\* ------------------------------------- circuit breaker: concurrent claims

\* The orders in which the threads of a set can come one after another.
Orders(S) ==
    {o \in [1..Cardinality(S) -> S] : \A i, j \in 1..Cardinality(S) : i # j => o[i] # o[j]}

\* The state of a breaker made by new() after the calls of the first n
\* threads of an order, made one after another, each at the time it read.
RECURSIVE run_in_order(_, _)
run_in_order(o, n) ==
    IF n = 0 THEN CircuitBreakerState_default
    ELSE method_state(calls[o[n]].op, run_in_order(o, n - 1), config, calls[o[n]].t)

\* The threads whose call has returned.
Returned == {c \in Threads : calls[c].pc = "done"}

\* C18: can_proceed, record_success, record_failure, get_state and reset on
\* one breaker are atomic to each other.  Whenever no call is under way the
\* state is the one some order of the returned calls, made one after
\* another, leaves; what get_state returned is such a state too, never one
\* between two assignments of another call; and when every thread has
\* returned from record_failure on a new breaker and the threads are at least
\* failure_threshold, the breaker is Open.
C18_MethodsAtomic ==
    /\ locks[StateLock] = "free" =>
          \E o \in Orders(Returned) : cb = run_in_order(o, Cardinality(Returned))
    /\ \A c \in Returned :
          calls[c].op = "get_state" =>
              \E S \in SUBSET (Threads \ {c}) :
                  \E o \in Orders(S) : calls[c].snapshot = run_in_order(o, Cardinality(S))
    /\ (/\ Returned = Threads
        /\ \A c \in Threads : calls[c].op = "record_failure"
        /\ Cardinality(Threads) >= config.failure_threshold) => cb.state = "Open"

\* record_failure has set the state to Open and not yet next_attempt_at_ms,
\* while get_state and another record_failure wait at lock().
C18_Witness ==
    \E a, b, c \in Threads :
        /\ calls[a].op = "record_failure" /\ calls[a].pc = "body"
        /\ cb.state = "Open"
        /\ cb.next_attempt_at_ms # calls[a].t + config.timeout_duration_ms
        /\ calls[b].op = "record_failure" /\ calls[b].pc = "lock"
        /\ calls[c].op = "get_state" /\ calls[c].pc = "lock"
        /\ b # a

\* ------------------------------------------------ the service: responses

Branches == {"in_dlq", "circuit_open", "exhausted", "scheduled"}

\* The messages schedule_retry can give in the current state on reaching each
\* of its return statements: the return statement and the message of every
\* call, then the messages by return statement.
branch_messages ==
    LET given == {<<schedule_retry_branch(entries, circuit_breakers, rconfig, c[1], now),
                    schedule_retry_response(entries, circuit_breakers, rconfig,
                                            c[1], now, c[2]).message>> :
                      c \in ScheduleRetryCalls}
    IN [b \in Branches |-> {g[2] : g \in {x \in given : x[1] = b}}]

\* C21: schedule_retry, get_circuit_status and get_retry_status return Ok with
\* a response, never Err.  The three rejections of schedule_retry (already in
\* the dead letter queue, circuit open, attempts exhausted) come back as Ok
\* with scheduled = false, and the messages of the three rejections and of a
\* scheduled retry are pairwise different, whatever provider and attempt
\* number they print.
C21_AlwaysOkDistinctMessages ==
    /\ \A c \in ScheduleRetryCalls :
          LET res == schedule_retry_result(entries, circuit_breakers, rconfig, c[1], now, c[2])
              branch == schedule_retry_branch(entries, circuit_breakers, rconfig, c[1], now)
          IN /\ res[1] = "Ok"
             /\ branch \in {"in_dlq", "circuit_open", "exhausted"} => ~res[2].scheduled
             /\ branch = "scheduled" => res[2].scheduled
    /\ \A p \in PspNames : get_circuit_status_result(circuit_breakers, p)[1] = "Ok"
    /\ \A tid \in TransactionIds :
          get_retry_status_result(entries, retry_states, tid)[1] = "Ok"
    /\ LET messages == branch_messages
       IN \A a, b \in Branches : a # b => messages[a] \cap messages[b] = {}

\* A state in which requests meet all four return statements: one transaction
\* dead-lettered, one provider's breaker Open before its timeout.
C21_Witness ==
    /\ \A b \in Branches : branch_messages[b] # {}
    /\ \E c \in ScheduleRetryCalls :
          /\ schedule_retry_branch(entries, circuit_breakers, rconfig, c[1], now)
                 = "circuit_open"
          /\ schedule_retry_result(entries, circuit_breakers, rconfig, c[1], now, c[2])
                 = Ok(RetryResponse(c[1].transaction_id, FALSE, 0,
                                    "Circuit breaker open for PSP: " \o c[1].psp_name))

\* ------------------------------------------- retry policy: the first retry

\* C22, as stated: with jitter disabled calculate_delay(1) is initial_delay_ms,
\* for every initial_delay_ms, max_delay_ms and backoff_multiplier.
C22_FirstRetryInitialDelay ==
    (pol.op = "calculate_delay" /\ ~rconfig.jitter /\ pol.attempt = 1) =>
        pol.delay = rconfig.initial_delay_ms

\* C22, amended: with jitter disabled calculate_delay(1) is the smaller of
\* initial_delay_ms and max_delay_ms whatever the multiplier: initial_delay_ms
\* when it is at most max_delay_ms, max_delay_ms when it is above.
C22_FirstRetryCappedInitialDelay ==
    (pol.op = "calculate_delay" /\ ~rconfig.jitter /\ pol.attempt = 1) =>
        /\ pol.delay = Min(rconfig.initial_delay_ms, rconfig.max_delay_ms)
        /\ rconfig.initial_delay_ms <= rconfig.max_delay_ms =>
               pol.delay = rconfig.initial_delay_ms
        /\ rconfig.initial_delay_ms > rconfig.max_delay_ms =>
               pol.delay = rconfig.max_delay_ms

\* The first retry of a policy whose initial delay is above its largest
\* delay, with a multiplier other than 1.
C22_Witness ==
    /\ pol.op = "calculate_delay"
    /\ ~rconfig.jitter
    /\ pol.attempt = 1
    /\ rconfig.initial_delay_ms > rconfig.max_delay_ms
    /\ rconfig.max_delay_ms > 0
    /\ rconfig.backoff_multiplier.num # rconfig.backoff_multiplier.den
    /\ pol.delay = rconfig.max_delay_ms

\* ------------------------------------ circuit breaker: consecutive failures

\* C23: a breaker with failure_threshold N >= 2, made by new(), is Closed
\* after every call of a sequence of record_failure and record_success calls
\* in which fewer than N record_failure calls come in a row: failure_count is
\* the number of failures since the last success, which a success sets back
\* to 0.
C23_ClosedWhileRunsShort ==
    (streak.on /\ config.failure_threshold >= 2) =>
        /\ cb.state = "Closed"
        /\ cb.failure_count = streak.run
        /\ streak.run < config.failure_threshold

\* More record_failure calls than the threshold have been made, the last one
\* just now, with a success in between: the breaker is Closed.
C23_Witness ==
    /\ streak.on
    /\ config.failure_threshold = 2
    /\ streak.total > config.failure_threshold
    /\ last.op = "record_failure"
    /\ streak.run = config.failure_threshold - 1
    /\ cb.state = "Closed"

\* --------------------------------- the service: exhausted on an Open breaker

\* C24: schedule_retry with attempt_number >= max_attempts, for a transaction
\* not in the dead letter queue and a provider whose breaker is Open with its
\* timeout elapsed, leaves that breaker HalfOpen with success_count = 0 (the
\* effect of can_proceed, every other field and every other breaker as it
\* was) and dead-letters the transaction, returning scheduled = false with
\* the message "Max retries exceeded, moved to DLQ": the breaker stays
\* HalfOpen although the call is rejected for its attempts.
C24_HalfOpenKeptOnExhaustion ==
    \A c \in ScheduleRetryCalls :
        LET req == c[1]
            p == req.psp_name
            breakers == schedule_retry_breakers(entries, circuit_breakers, req, now)
            after == schedule_retry_entries(entries, circuit_breakers, rconfig, req, now)
            resp == schedule_retry_response(entries, circuit_breakers, rconfig, req, now, c[2])
        IN (/\ ~contains_result(entries, req.transaction_id)
            /\ p \in DOMAIN circuit_breakers
            /\ circuit_breakers[p].state = "Open"
            /\ now >= circuit_breakers[p].next_attempt_at_ms
            /\ req.attempt_number >= rconfig.max_attempts) =>
               /\ breakers = [circuit_breakers EXCEPT
                                 ![p] = [@ EXCEPT !.state = "HalfOpen", !.success_count = 0]]
               /\ req.transaction_id \in DOMAIN after
               /\ after[req.transaction_id].psp_name = p
               /\ after[req.transaction_id].attempt_count = req.attempt_number
               /\ ~resp.scheduled
               /\ resp.next_retry_at_ms = 0
               /\ resp.message = "Max retries exceeded, moved to DLQ"
               /\ schedule_retry_states(entries, circuit_breakers, rconfig, retry_states, req, now)
                      = retry_states

\* A request with its attempts used up for a provider whose breaker was
\* opened at an earlier clock reading and has its timeout behind it, while
\* the other provider's breaker is Open too: the call turns the first
\* HalfOpen and dead-letters the transaction.
C24_Witness ==
    \E c \in ScheduleRetryCalls, q \in DOMAIN circuit_breakers :
        LET req == c[1]
            p == req.psp_name
        IN /\ ~contains_result(entries, req.transaction_id)
           /\ p \in DOMAIN circuit_breakers
           /\ q # p
           /\ circuit_breakers[q].state = "Open"
           /\ circuit_breakers[p].state = "Open"
           /\ circuit_breakers[p].last_failure_at_ms < now
           /\ now >= circuit_breakers[p].next_attempt_at_ms
           /\ req.attempt_number >= rconfig.max_attempts
           /\ schedule_retry_branch(entries, circuit_breakers, rconfig, req, now) = "exhausted"
           /\ schedule_retry_breakers(entries, circuit_breakers, req, now)[p].state = "HalfOpen"
           /\ schedule_retry_breakers(entries, circuit_breakers, req, now)[q].state = "Open"

\* ------------------------------------- dead letter queue: the map it keeps

\* The transactions whose last add_entry / remove_entry call was add_entry.
LastAdded == {t \in TransactionIds : ledger[t].last # None}

\* C25: after any sequence of add_entry and remove_entry calls, contains(t)
\* is true exactly for the transactions whose last such call was add_entry;
\* get_entry(t) returns the entry that call was given, all six fields as
\* given, and None for the others; count() is the number of those
\* transactions and the number of entries get_all_entries() returns.
C25_MapFollowsLastCall ==
    /\ \A t \in TransactionIds :
          /\ contains_result(entries, t) <=> t \in LastAdded
          /\ get_entry_result(entries, t) = ledger[t].last
    /\ count_result(entries) = Cardinality(LastAdded)
    /\ count_result(entries) = Cardinality(get_all_entries_result(entries))
    /\ dq.op = "contains" => dq.ret = Some(dq.tid \in LastAdded)
    /\ dq.op = "get_entry" => dq.ret = ledger[dq.tid].last
    /\ dq.op = "count" => dq.ret = Some(Cardinality(LastAdded))
    /\ dq.op = "get_all_entries" =>
           dq.ret = {ledger[t].last[1] : t \in LastAdded}

\* get_entry returns the entry of a transaction that was added, removed and
\* added again, while the other transaction was added and then removed.
C25_Witness ==
    \E t, u \in TransactionIds :
        /\ dq.op = "get_entry"
        /\ dq.tid = t
        /\ ledger[t].removed
        /\ dq.ret # None
        /\ dq.ret = ledger[t].last
        /\ dq.ret[1].attempt_count = MaxAttemptCount
        /\ u # t
        /\ ledger[u].removed
        /\ ledger[u].last = None
        /\ count_result(entries) = 1

\* C26: remove_entry(t) on a queue that holds an entry for t returns that
\* entry, makes count() one less and contains(t) false, and leaves every other
\* entry in place as it was; on a queue that holds none for t it returns None
\* and leaves the queue as it was.
C26_RemoveEntry ==
    dq.op = "remove_entry" =>
        /\ dq.tid \in DOMAIN dq.pre =>
               /\ dq.ret = Some(dq.pre[dq.tid])
               /\ count_result(entries) = count_result(dq.pre) - 1
               /\ ~contains_result(entries, dq.tid)
               /\ get_entry_result(entries, dq.tid) = None
               /\ \A u \in (DOMAIN dq.pre) \ {dq.tid} :
                      /\ contains_result(entries, u)
                      /\ get_entry_result(entries, u) = Some(dq.pre[u])
               /\ DOMAIN entries \subseteq DOMAIN dq.pre
        /\ dq.tid \notin DOMAIN dq.pre =>
               /\ dq.ret = None
               /\ entries = dq.pre

\* One of two entries has just been removed; the other is still there.
C26_Witness ==
    /\ dq.op = "remove_entry"
    /\ dq.tid \in DOMAIN dq.pre
    /\ count_result(dq.pre) = 2
    /\ dq.ret = Some(dq.pre[dq.tid])
    /\ count_result(entries) = 1
    /\ \E u \in DOMAIN entries : u # dq.tid /\ entries[u] = dq.pre[u]

\* ------------------------------------ circuit breaker: calls on each state

\* C27: record_failure sets last_failure_at_ms to the clock reading whatever
\* the state; on an Open breaker it also sets next_attempt_at_ms to the
\* reading plus timeout_duration_ms and changes nothing else (the breaker
\* stays Open, both counters as they were).  The breaker then refuses calls
\* until that time, which, with a clock that never went backwards, is not
\* before the time it refused them until.
C27_FailureWhileOpenPostpones ==
    last.op = "record_failure" =>
        /\ cb.last_failure_at_ms = now
        /\ last.pre.state = "Open" =>
               /\ cb = [last.pre EXCEPT !.last_failure_at_ms = now,
                                        !.next_attempt_at_ms = now + config.timeout_duration_ms]
               /\ cb.state = "Open"
               /\ cb.failure_count = last.pre.failure_count
               /\ cb.success_count = last.pre.success_count
               /\ \A t \in 0..MaxTime :
                      can_proceed_result(cb, t) <=> t >= now + config.timeout_duration_ms
               /\ mono => cb.next_attempt_at_ms >= last.pre.next_attempt_at_ms

\* A failure recorded on an Open breaker whose timeout had elapsed: the time
\* of the next attempt has moved forward, past the present reading.
C27_Witness ==
    /\ last.op = "record_failure"
    /\ last.pre.state = "Open"
    /\ mono
    /\ now >= last.pre.next_attempt_at_ms
    /\ last.pre.last_failure_at_ms < now
    /\ cb.state = "Open"
    /\ cb.next_attempt_at_ms > now
    /\ cb.next_attempt_at_ms > last.pre.next_attempt_at_ms

\* C28: record_success on an Open breaker leaves it Closed with failure_count
\* = 0 and success_count = 0, the two timestamps as they were, before the
\* timeout has elapsed as well as after; can_proceed then returns true at any
\* clock reading and changes nothing.
C28_SuccessWhileOpenCloses ==
    (last.op = "record_success" /\ last.pre.state = "Open") =>
        /\ cb = [last.pre EXCEPT !.state = "Closed", !.failure_count = 0, !.success_count = 0]
        /\ cb.state = "Closed"
        /\ cb.failure_count = 0
        /\ cb.success_count = 0
        /\ \A t \in 0..MaxTime :
               /\ can_proceed_result(cb, t)
               /\ can_proceed_state(cb, t) = cb

\* A success recorded on a breaker opened by threshold failures, before its
\* timeout has elapsed.
C28_Witness ==
    /\ last.op = "record_success"
    /\ last.pre.state = "Open"
    /\ last.pre.failure_count = MaxThreshold
    /\ now < last.pre.next_attempt_at_ms
    /\ ~can_proceed_result(last.pre, now)
    /\ cb.state = "Closed"
    /\ cb.failure_count = 0
    /\ can_proceed_result(cb, now)

\* C29: can_proceed on a Closed or HalfOpen breaker returns true and leaves
\* every field as it was, at every call and every clock reading, so a HalfOpen
\* breaker admits any number of calls; when can_proceed changes the breaker
\* at all, the breaker was Open and is HalfOpen afterwards, with no other
\* field changed.
C29_CanProceedReadsUnlessOpen ==
    /\ (last.op = "can_proceed" /\ last.pre.state \in {"Closed", "HalfOpen"}) =>
           /\ last.ret = TRUE
           /\ cb = last.pre
    /\ (last.op = "can_proceed" /\ cb # last.pre) =>
           /\ last.pre.state = "Open"
           /\ cb = [last.pre EXCEPT !.state = "HalfOpen"]
    /\ cb.state \in {"Closed", "HalfOpen"} =>
           \A t \in 0..MaxTime :
               /\ can_proceed_result(cb, t)
               /\ can_proceed_state(cb, t) = cb

\* can_proceed has been called on a breaker already HalfOpen, made so by an
\* earlier can_proceed and with a success of the episode counted: it returned
\* true and changed nothing.
C29_Witness ==
    /\ last.op = "can_proceed"
    /\ last.pre.state = "HalfOpen"
    /\ last.pre.success_count >= 1
    /\ mono
    /\ last.ret = TRUE
    /\ cb = last.pre

\* ------------------------------- the service: dead letter entries over time

\* The request a handler was called with.
request_of(c) ==
    [transaction_id |-> calls[c].transaction_id,
     psp_name |-> calls[c].psp_name,
     attempt_number |-> calls[c].attempt_number,
     payload |-> <<1>>]

\* C30: however schedule_retry calls interleave, an entry of the dead letter
\* queue keeps the fields it was made with (provider, payload, attempt count,
\* last error, timestamp): there being no remove_entry, and the clock standing
\* still, every call that has dead-lettered its transaction finds in the
\* queue the entry it put there, at any later time.
C30_EntryNeverOverwritten ==
    \A c \in Callers :
        (calls[c].pc = "done" /\ calls[c].result = "exhausted") =>
            /\ calls[c].transaction_id \in DOMAIN entries
            /\ entries[calls[c].transaction_id] = exhausted_entry(request_of(c), now)

\* C30 with the handlers taken one at a time: no call of schedule_retry
\* changes or removes an entry the queue holds.
C30_EntryKeptOneCallAtATime ==
    \A c \in ScheduleRetryCalls :
        LET after == schedule_retry_entries(entries, circuit_breakers, rconfig, c[1], now)
        IN \A t \in DOMAIN entries : t \in DOMAIN after /\ after[t] = entries[t]

\* A transaction is dead-lettered and a request with its attempts used up
\* arrives for it, naming another provider.
C30_OneCallAtATimeWitness ==
    \E c \in ScheduleRetryCalls :
        /\ c[1].transaction_id \in DOMAIN entries
        /\ entries[c[1].transaction_id].psp_name # c[1].psp_name
        /\ c[1].attempt_number >= rconfig.max_attempts
        /\ schedule_retry_branch(entries, circuit_breakers, rconfig, c[1], now) = "in_dlq"

\* ----------------------------------------- the service: what stays for good

\* C31: a retry state is never removed.  No step of the service takes a
\* transaction out of retry_states: once schedule_retry has put a state there
\* the transaction has one in every later state, also after it has been
\* dead-lettered, when it is in retry_states and in the dead letter queue.
C31_RetryStateNeverRemoved ==
    [][\A t \in DOMAIN retry_states : t \in DOMAIN retry_states']_vars

\* A transaction scheduled for a retry at one clock reading and dead-lettered
\* at a later one: it is in both maps, with the state of the retry.
C31_Witness ==
    \E t \in DOMAIN retry_states :
        /\ t \in DOMAIN entries
        /\ retry_states[t].attempt_count < rconfig.max_attempts
        /\ entries[t].attempt_count >= rconfig.max_attempts
        /\ entries[t].timestamp_ms > retry_states[t].last_attempt_at_ms

\* ------------------------------------- the service: one breaker per provider

\* The registry without the breakers of the providers other than p.
only_breaker(br, p) == [q \in (DOMAIN br) \cap {p} |-> br[q]]

\* A step has changed the breaker of provider p, or put one in the registry.
breaker_changed(p) ==
    \/ (p \in DOMAIN circuit_breakers) # (p \in DOMAIN circuit_breakers')
    \/ /\ p \in DOMAIN circuit_breakers
       /\ p \in DOMAIN circuit_breakers'
       /\ circuit_breakers'[p] # circuit_breakers[p]

\* C32: the breakers of different providers are independent.  schedule_retry
\* and get_circuit_status naming one provider leave every field of every
\* other provider's breaker as it was, and so does every step that reaches a
\* breaker (can_proceed, record_success, record_failure, reset): no step
\* changes the breakers of two providers.  What schedule_retry returns and
\* does for a request is the same with the other providers' breakers taken
\* out of the registry, so their state has no part in it.
C32_BreakersIndependent ==
    /\ [](\A c \in ScheduleRetryCalls :
            LET req == c[1]
                p == req.psp_name
                alone == only_breaker(circuit_breakers, p)
                after == schedule_retry_breakers(entries, circuit_breakers, req, now)
            IN /\ \A q \in (DOMAIN circuit_breakers) \ {p} : after[q] = circuit_breakers[q]
               /\ DOMAIN after \subseteq (DOMAIN circuit_breakers) \cup {p}
               /\ schedule_retry_response(entries, circuit_breakers, rconfig, req, now, c[2])
                      = schedule_retry_response(entries, alone, rconfig, req, now, c[2])
               /\ schedule_retry_entries(entries, circuit_breakers, rconfig, req, now)
                      = schedule_retry_entries(entries, alone, rconfig, req, now)
               /\ schedule_retry_states(entries, circuit_breakers, rconfig, retry_states, req, now)
                      = schedule_retry_states(entries, alone, rconfig, retry_states, req, now)
               /\ only_breaker(after, p)
                      = schedule_retry_breakers(entries, alone, req, now))
    /\ [](\A p \in PspNames :
            LET after == get_or_create_circuit_breaker(circuit_breakers, p)
            IN /\ \A q \in (DOMAIN circuit_breakers) \ {p} : after[q] = circuit_breakers[q]
               /\ DOMAIN after \subseteq (DOMAIN circuit_breakers) \cup {p}
               /\ get_circuit_status_response(circuit_breakers, p)
                      = get_circuit_status_response(only_breaker(circuit_breakers, p), p))
    /\ [][\A p, q \in PspNames : (breaker_changed(p) /\ breaker_changed(q)) => p = q]_vars

\* One provider's breaker is Open before its timeout and the other's is
\* Closed with failures counted: of two requests alike but for the provider,
\* one is refused for the open circuit and the other scheduled.
C32_Witness ==
    \E c, e \in ScheduleRetryCalls :
        /\ c[1].psp_name # e[1].psp_name
        /\ c[1].transaction_id = e[1].transaction_id
        /\ c[1].attempt_number = e[1].attempt_number
        /\ e[1].psp_name \in DOMAIN circuit_breakers
        /\ circuit_breakers[e[1].psp_name].last_failure_at_ms # 0
        /\ schedule_retry_branch(entries, circuit_breakers, rconfig, c[1], now) = "circuit_open"
        /\ schedule_retry_branch(entries, circuit_breakers, rconfig, e[1], now) = "scheduled"

\* --------------------------------------- the breaker: what its counters hold

\* C33: with both thresholds at least 1, a breaker made by new() is in every
\* reachable state either Closed with no success counted and fewer failures
\* than failure_threshold, or Open with exactly failure_threshold failures
\* and no success counted, or HalfOpen with fewer successes than
\* success_threshold.
C33_CountersByState ==
    (config.failure_threshold >= 1 /\ config.success_threshold >= 1) =>
        /\ cb.state = "Closed" =>
              (cb.success_count = 0 /\ cb.failure_count < config.failure_threshold)
        /\ cb.state = "Open" =>
              (cb.failure_count = config.failure_threshold /\ cb.success_count = 0)
        /\ cb.state = "HalfOpen" => cb.success_count < config.success_threshold

\* A failure has reopened a HalfOpen breaker that had counted a success.
C33_Witness ==
    /\ config.failure_threshold >= 1
    /\ config.success_threshold >= 1
    /\ cb.state = "Open"
    /\ last.op = "record_failure"
    /\ last.pre.state = "HalfOpen"
    /\ last.pre.success_count >= 1

\* -------------------------------------------- the breaker: its edges

\* The edge a step of the breaker has taken, with the call that took it.
edge_allowed(from, to, op) ==
    \/ /\ from.state = "Closed" /\ to.state = "Open"
       /\ op = "record_failure"
       /\ from.failure_count + 1 >= config.failure_threshold
    \/ /\ from.state = "Open" /\ to.state = "HalfOpen"
       /\ op = "can_proceed"
       /\ now >= from.next_attempt_at_ms
    \/ /\ from.state = "HalfOpen" /\ to.state = "Closed"
       /\ op = "record_success"
       /\ from.success_count + 1 >= config.success_threshold
    \/ /\ from.state = "HalfOpen" /\ to.state = "Open"
       /\ op = "record_failure"
    \/ /\ from.state = "Open" /\ to.state = "Closed"
       /\ op = "record_success"
    \/ /\ to.state = "Closed"
       /\ op = "reset"

\* C34: the state of the breaker changes only from Closed to Open by a
\* record_failure that reaches failure_threshold, from Open to HalfOpen by a
\* can_proceed at or after next_attempt_at_ms, from HalfOpen to Closed by a
\* record_success that reaches success_threshold, from HalfOpen to Open by
\* record_failure, from Open to Closed by record_success, and from any state
\* to Closed by reset.  So HalfOpen is entered from Open only and by
\* can_proceed only, never from Closed.
C34_StateChangesAlongEdges ==
    [][/\ cb'.state # cb.state => edge_allowed(cb, cb', last'.op)
       /\ (cb'.state = "HalfOpen" /\ cb.state # "HalfOpen") =>
              (cb.state = "Open" /\ last'.op = "can_proceed")]_vars

\* The round Closed, Open, HalfOpen, Closed is done: the second success of a
\* HalfOpen breaker has closed it.
C34_Witness ==
    /\ cb.state = "Closed"
    /\ last.op = "record_success"
    /\ last.pre.state = "HalfOpen"
    /\ last.pre.success_count = 1
    /\ last.pre.failure_count = config.failure_threshold
    /\ config.failure_threshold >= 1

\* ----------------------------------- the service: nothing opens a breaker

\* C35: in every state reached through schedule_retry, get_circuit_status and
\* get_retry_status alone, every breaker of the registry is Closed with
\* failure_count 0 and success_count 0, and no schedule_retry is refused for
\* an open circuit, whatever the request.
C35_HandlersNeverOpen ==
    /\ \A p \in DOMAIN circuit_breakers :
          /\ circuit_breakers[p].state = "Closed"
          /\ circuit_breakers[p].failure_count = 0
          /\ circuit_breakers[p].success_count = 0
    /\ \A req \in RetryRequest :
          schedule_retry_branch(entries, circuit_breakers, rconfig, req, now) # "circuit_open"

\* Every provider has a breaker, one transaction is dead-lettered and the
\* other has a retry scheduled.
C35_Witness ==
    /\ DOMAIN circuit_breakers = PspNames
    /\ DOMAIN entries # {}
    /\ DOMAIN retry_states # {}
    /\ DOMAIN entries # DOMAIN retry_states
    /\ now # 0

\* ------------------------- concurrent calls: the dead letter check and the write

\* C36: however schedule_retry calls for one transaction interleave, once the
\* transaction is in the dead letter queue no step inserts or overwrites a
\* retry state for it and no call for it returns scheduled = true: the
\* contains test and the later write of one call act as one decision.
C36_NoScheduleOnceDeadLettered ==
    [][\A t \in DOMAIN entries :
          /\ t \in DOMAIN retry_states' =>
                 (t \in DOMAIN retry_states /\ retry_states'[t] = retry_states[t])
          /\ \A c \in Callers :
                 (calls'[c].transaction_id = t
                      /\ calls[c].pc # "done" /\ calls'[c].pc = "done")
                     => calls'[c].result # "scheduled"]_vars

\* ------------------------------ the service: who is dead-lettered, who retries

\* Requests with any attempt_number of the signed field, negative ones too.
SignedRequests ==
    [transaction_id : TransactionIds,
     psp_name : PspNames,
     attempt_number : (0 - 2)..(MaxAttempts + 1),
     payload : RequestPayloads]

\* C37: in every state reached through schedule_retry every entry of the dead
\* letter queue has attempt_count >= max_attempts and every retry state has
\* attempt_count < max_attempts, and this stays so after one more call with
\* any attempt_number; a call whose attempt number, as the policy reads it,
\* still permits a retry dead-letters nothing.
C37_ExhaustedOnlyInQueue ==
    /\ \A t \in DOMAIN entries : entries[t].attempt_count >= rconfig.max_attempts
    /\ \A t \in DOMAIN retry_states : retry_states[t].attempt_count < rconfig.max_attempts
    /\ \A req \in SignedRequests :
          LET en == schedule_retry_entries(entries, circuit_breakers, rconfig, req, now)
              rs == schedule_retry_states(entries, circuit_breakers, rconfig,
                                          retry_states, req, now)
          IN /\ \A t \in DOMAIN en : en[t].attempt_count >= rconfig.max_attempts
             /\ \A t \in DOMAIN rs : rs[t].attempt_count < rconfig.max_attempts
             /\ should_retry_result(rconfig, as_u32(req.attempt_number)) => en = entries

\* One transaction was dead-lettered at max_attempts, the other has the state
\* of its last permitted attempt, and a request that permits a retry arrives
\* while the breaker of its provider is Open.
C37_Witness ==
    /\ \E t \in DOMAIN entries : entries[t].attempt_count = rconfig.max_attempts
    /\ \E t \in DOMAIN retry_states :
          /\ t \notin DOMAIN entries
          /\ retry_states[t].attempt_count + 1 = rconfig.max_attempts
    /\ \E req \in RetryRequest :
          /\ should_retry_result(rconfig, as_u32(req.attempt_number))
          /\ schedule_retry_branch(entries, circuit_breakers, rconfig, req, now)
                 = "circuit_open"

\* ------------------------------------ the service: dead-lettering is final

\* C38: the service has no call of remove_entry, and a transaction of the
\* dead letter queue is in it in every later state.  While it is there every
\* schedule_retry for it, whatever the attempt_number, the provider and the
\* jitter drawn, returns Ok with scheduled = false and the message of the
\* dead letter check and writes nothing, and every get_retry_status for it
\* returns Ok with status IN_DLQ and in_dlq = true.
C38_DeadLetteringTerminal ==
    /\ [][\A t \in DOMAIN entries : t \in DOMAIN entries']_vars
    /\ [](\A req \in SignedRequests :
            req.transaction_id \in DOMAIN entries =>
                /\ \A d \in (0..jitter_range(rconfig.max_delay_ms)) \X BOOLEAN :
                       schedule_retry_result(entries, circuit_breakers, rconfig, req, now, d)
                           = Ok(RetryResponse(req.transaction_id, FALSE, 0,
                                              "Transaction already in dead letter queue"))
                /\ schedule_retry_entries(entries, circuit_breakers, rconfig, req, now)
                       = entries
                /\ schedule_retry_states(entries, circuit_breakers, rconfig,
                                         retry_states, req, now) = retry_states
                /\ schedule_retry_breakers(entries, circuit_breakers, req, now)
                       = circuit_breakers
                /\ LET status == get_retry_status_result(entries, retry_states,
                                                         req.transaction_id)
                   IN /\ status[1] = "Ok"
                      /\ status[2].status = "IN_DLQ"
                      /\ status[2].in_dlq)

\* A dead-lettered transaction that still has the state of an earlier retry,
\* at a later clock reading than the dead-lettering, while the other
\* transaction is not dead-lettered.
C38_Witness ==
    \E t \in DOMAIN entries :
        /\ t \in DOMAIN retry_states
        /\ now > entries[t].timestamp_ms
        /\ DOMAIN entries = {t}
        /\ DOMAIN circuit_breakers = PspNames

\* ------------------------------- the breaker: each HalfOpen episode from zero

\* C39: the successes counted in one HalfOpen episode do not carry over to
\* the next.  Every passage from Open to HalfOpen starts with success_count
\* = 0, whatever number of successes the episode before had counted when a
\* failure ended it; a HalfOpen breaker has counted the successes of its own
\* episode only, and closes on the success that makes them success_threshold.
C39_EpisodeStartsFromZero ==
    /\ (last.op = "can_proceed" /\ last.pre.state = "Open" /\ cb.state = "HalfOpen") =>
           (cb.success_count = 0 /\ episode = 0)
    /\ cb.state = "HalfOpen" => cb.success_count = episode
    /\ (last.op = "record_success" /\ last.pre.state = "HalfOpen"
            /\ config.success_threshold >= 1) =>
           (cb.state = "Closed") = (last.pre.success_count + 1 = config.success_threshold)

\* The episode before counted a success and was ended by a failure; in the
\* new episode one success has been recorded, which makes as many successes
\* in all as success_threshold, and the breaker is still HalfOpen.
C39_Witness ==
    /\ carried >= 1
    /\ cb.state = "HalfOpen"
    /\ last.op = "record_success"
    /\ last.pre.state = "HalfOpen"
    /\ episode = 1
    /\ carried + episode >= config.success_threshold

\* --------------------------------------- the breaker: an Open breaker is probed

\* The last call was a record_failure on an Open breaker.
FailedWhileOpen == last.op = "record_failure" /\ last.pre.state = "Open"

\* C40: while the clock keeps advancing and can_proceed keeps being called,
\* an Open breaker on which no record_failure is recorded from then on
\* becomes HalfOpen (or Closed, by a success or a reset): from every state
\* with the breaker Open, either it leaves Open or a record_failure is
\* recorded on it while Open.
C40_OpenEventuallyProbed ==
    (cb.state = "Open" /\ ~FailedWhileOpen) ~> (cb.state # "Open" \/ FailedWhileOpen)

\* Without the condition on record_failure the same does not follow: a
\* record_failure before each expiry moves next_attempt_at_ms on, every
\* can_proceed in between returns false, and the breaker stays Open for ever.
\* This formula is the one such a run violates.
C40_OpenLeftWhateverFails == (cb.state = "Open") ~> (cb.state # "Open")

\* A can_proceed has made HalfOpen a breaker that had been reopened by a
\* failure in an episode with a success counted, at the reading the clock
\* reached a timeout of at least 1 ms after the last failure.
C40_Witness ==
    /\ cb.state = "HalfOpen"
    /\ last.op = "can_proceed"
    /\ last.pre.state = "Open"
    /\ config.timeout_duration_ms >= 1
    /\ last.pre.next_attempt_at_ms = now
    /\ last.pre.next_attempt_at_ms > last.pre.last_failure_at_ms
    /\ carried >= 1

====
